---------------------------- MODULE Spec2Model ----------------------------
(***************************************************************************)
(* Model of the failover scenario of robotest's gravity package:           *)
(*   infra/gravity/cluster_failover.go  (Failover, getLeaderNode,          *)
(*                                       getPartitions, retry functions)   *)
(*   infra/gravity/node_commands.go     (IsLeader, PartitionNetwork,       *)
(*                                       UnpartitionNetwork)               *)
(* and of the bounded retry engine (lib/wait.Retryer) those functions use. *)
(***************************************************************************)
EXTENDS Integers, Sequences, FiniteSets, TLC

(***************************************************************************)
(* Bounds of the model.                                                    *)
(***************************************************************************)
\* number of gravity nodes that exist
MaxNodes == 3
\* largest Attempts value a Retryer is configured with
MaxAttempts == 3

Node == 1..MaxNodes
Nil == 0

\* infra.Node.PrivateAddr(): the address that identifies a node in the cluster
PrivateAddr(n) == 100 + n
Addrs == {PrivateAddr(n) : n \in Node}
NoAddr == 0

\* the node lists a caller can pass: ordered sets of distinct nodes, the
\* empty list included
Clusters ==
    {s \in UNION {[1..n -> Node] : n \in 0..MaxNodes} :
        \A i, j \in 1..Len(s) : i # j => s[i] # s[j]}

Range(s) == {s[i] : i \in 1..Len(s)}

VARIABLES
    nodes,       \* the caller's node slice (contents of its backing array)
    pc,          \* the stage Failover is at
    oldLeader,   \* Failover's oldLeader
    newLeader,   \* Failover's newLeader
    partitions,  \* Failover's partitions: <<partitions[0], partitions[1]>>
    rules,       \* rules[n]: the iptables DROP rules installed on node n
    retry,       \* the state of the wait.Retryer that is running
    err,         \* the error the operation returned
    hist,        \* what the stages of Failover did so far
    env,         \* the nodes' answers a leader detection saw
    last,        \* the result of that leader detection
    target,      \* the node PartitionNetwork / UnpartitionNetwork run on
    calls,       \* the successful partition and heal calls made on target
    script,      \* the outcomes an attempt function returns, call by call
    clock,       \* the time, the context's deadline and the Retryer's Delay
    ssh,         \* ssh[n]: the connection handle of node n (g.ssh)
    oper,        \* the command last run on a node, or the operation runOp polls
    dist         \* the tasks, channel and wait group of a Distribute call

\* the state of the remote channel, of runOp and of Distribute
more == <<clock, ssh, oper, dist>>

vars == <<nodes, pc, oldLeader, newLeader, partitions, rules, retry, err,
          hist, env, last, target, calls, script, more>>

(***************************************************************************)
(* Errors.  An error is a kind with the message of its outermost wrap.     *)
(***************************************************************************)
\* no command
NoCmd == [op |-> "", chain |-> "", flag |-> "", addr |-> NoAddr]

\* an error: its kind, the message of its outermost wrap, and the remote
\* command it names (NoCmd when it names none)
Err(kind, msg) == [kind |-> kind, msg |-> msg, cmd |-> NoCmd]
NoErr == Err("nil", "")

\* trace.Wrap(err, msg): nil stays nil, the kind is kept, a message is added
Wrap(e, msg) ==
    IF e.kind = "nil" THEN NoErr
    ELSE [e EXCEPT !.msg = IF msg = "" THEN e.msg ELSE msg]

(***************************************************************************)
(* Leader detection.                                                       *)
(***************************************************************************)
\* what a node's coordination layer shows when it is asked: whether the
\* status query succeeds, and the value of the leader key ("" on failure)
Views ==
    {[statusOk |-> FALSE, leaderIP |-> NoAddr]} \cup
    {[statusOk |-> TRUE, leaderIP |-> a] : a \in Addrs \cup {NoAddr}}

Envs == [Node -> Views]

\* an IsLeader that takes a failed lookup of the leader key for a claim
IsLeaderOnFailedLookup(n, view) ==
    IF ~view.statusOk THEN FALSE
    ELSE view.leaderIP \in {PrivateAddr(n), NoAddr}

\* gravity.IsLeader: false when Status fails, else leaderIP = PrivateAddr
IsLeader(n, view) ==
    IF ~view.statusOk THEN FALSE
    ELSE IF view.leaderIP # PrivateAddr(n) THEN FALSE
    ELSE TRUE

RECURSIVE getLeaderLoop(_, _, _, _, _)
\* the loop of getLeaderNode from index i on, leader being the claimant found
\* so far and queried the nodes asked so far
getLeaderLoop(ns, e, i, leader, queried) ==
    IF i > Len(ns)
    THEN IF leader = Nil
         THEN [leader |-> Nil, err |-> Err("NotFound", "unable to get leader node"),
               queried |-> queried]
         ELSE [leader |-> leader, err |-> NoErr, queried |-> queried]
    ELSE LET node == ns[i]
             asked == Append(queried, node)
         IN  IF IsLeader(node, e[node])
             THEN IF leader # Nil
                  THEN [leader |-> Nil,
                        err |-> Err("BadParameter", "multiple leader nodes"),
                        queried |-> asked]
                  ELSE getLeaderLoop(ns, e, i + 1, node, asked)
             ELSE getLeaderLoop(ns, e, i + 1, leader, asked)

\* a leader detection that keeps the last claimant instead of failing
getLeaderNodeLastWins(ns, e) ==
    LET claim == {i \in 1..Len(ns) : IsLeader(ns[i], e[ns[i]])}
    IN  IF claim = {}
        THEN getLeaderLoop(ns, e, 1, Nil, <<>>)
        ELSE [leader |-> ns[CHOOSE i \in claim : \A j \in claim : j <= i],
              err |-> NoErr, queried |-> ns]

\* a leader detection that asks every node even after a second claimant
getLeaderNodeAsksAll(ns, e) ==
    [getLeaderLoop(ns, e, 1, Nil, <<>>) EXCEPT !.queried = ns]

\* getLeaderNode(ctx, nodes)
getLeaderNode(ns, e) == getLeaderLoop(ns, e, 1, Nil, <<>>)

(***************************************************************************)
(* The partition of the cluster around the leader.                         *)
(***************************************************************************)
\* the index of the first entry of cluster that is leader, 0 when none is
IndexOf(cluster, leader) ==
    IF \E i \in 1..Len(cluster) : cluster[i] = leader
    THEN CHOOSE i \in 1..Len(cluster) :
             cluster[i] = leader /\ \A j \in 1..(i - 1) : cluster[j] # leader
    ELSE 0

\* a partition computation that leaves the leader in the remainder
getPartitionsKeepLeader(cluster, leader) ==
    [parts |-> <<<<leader>>, cluster>>, backing |-> cluster]

\* a partition computation that loses the nodes listed after the leader
getPartitionsDropTail(cluster, leader) ==
    [parts |-> <<<<leader>>, SubSeq(cluster, 1, IndexOf(cluster, leader) - 1)>>,
     backing |-> cluster]

\* getPartitions(cluster, leader): parts are the two subsets returned, backing
\* is the caller's slice afterwards.  append(cluster[:i], cluster[i+1:]...)
\* has the capacity of cluster, so it writes the tail one place to the left
\* into the caller's backing array and leaves the last element where it was.
getPartitions(cluster, leader) ==
    LET i == IndexOf(cluster, leader)
        n == Len(cluster)
    IN  IF i = 0
        THEN [parts |-> <<<<leader>>, <<>>>>, backing |-> cluster]
        ELSE [parts |-> <<<<leader>>,
                          SubSeq(cluster, 1, i - 1) \o SubSeq(cluster, i + 1, n)>>,
              backing |-> IF i = n THEN cluster
                          ELSE SubSeq(cluster, 1, i - 1) \o
                               SubSeq(cluster, i + 1, n) \o <<cluster[n]>>]


(***************************************************************************)
(* The firewall of a node: the list of its DROP rules, newest first        *)
(* (iptables -I inserts at the head of the chain).                         *)
(***************************************************************************)
\* "-s addr -j DROP" in the given chain
Rule(chain, addr) == [chain |-> chain, flag |-> "-s", addr |-> addr]

\* "sudo iptables <op> <chain> -s <addr> -j DROP"; "sudo iptables -S" has
\* no rule
Cmd(op, rule) ==
    [op |-> op, chain |-> rule.chain, flag |-> rule.flag, addr |-> rule.addr]
CmdRule(cmd) == [chain |-> cmd.chain, flag |-> cmd.flag, addr |-> cmd.addr]
CmdList == [op |-> "-S", chain |-> "", flag |-> "", addr |-> NoAddr]

\* a packet seen by node self: in the INPUT chain when it is addressed to
\* self, in the OUTPUT chain when self sends it
Inbound(self, peer) == [chain |-> "INPUT", src |-> PrivateAddr(peer),
                        dst |-> PrivateAddr(self)]
Outbound(self, peer) == [chain |-> "OUTPUT", src |-> PrivateAddr(self),
                         dst |-> PrivateAddr(peer)]

\* iptables matching: a rule drops the packets of its chain whose source
\* (-s) or destination (-d) is its address
Matches(rule, pkt) ==
    /\ rule.chain = pkt.chain
    /\ IF rule.flag = "-s" THEN pkt.src = rule.addr ELSE pkt.dst = rule.addr

Dropped(rs, pkt) == \E i \in 1..Len(rs) : Matches(rs[i], pkt)

\* the rules of rs that name the address of peer
RulesFor(rs, peer) == SelectSeq(rs, LAMBDA r : r.addr = PrivateAddr(peer))

\* an iptables whose -D succeeds when there is no such rule
ExecDeleteQuiet(rs, cmd) ==
    IF cmd.op = "-I" THEN [rules |-> <<CmdRule(cmd)>> \o rs, ok |-> TRUE]
    ELSE IF cmd.op = "-D"
    THEN [rules |-> SelectSeq(rs, LAMBDA r : r # CmdRule(cmd)), ok |-> TRUE]
    ELSE [rules |-> rs, ok |-> TRUE]

\* an iptables whose -I leaves the chain alone when it holds the rule already
ExecInsertOnce(rs, cmd) ==
    IF cmd.op = "-I"
    THEN IF \E i \in 1..Len(rs) : rs[i] = CmdRule(cmd)
         THEN [rules |-> rs, ok |-> TRUE]
         ELSE [rules |-> <<CmdRule(cmd)>> \o rs, ok |-> TRUE]
    ELSE IF cmd.op = "-D"
    THEN IF \E i \in 1..Len(rs) : rs[i] = CmdRule(cmd)
         THEN LET i == CHOOSE i \in 1..Len(rs) :
                           rs[i] = CmdRule(cmd) /\ \A j \in 1..(i - 1) : rs[j] # CmdRule(cmd)
              IN  [rules |-> SubSeq(rs, 1, i - 1) \o SubSeq(rs, i + 1, Len(rs)),
                   ok |-> TRUE]
         ELSE [rules |-> rs, ok |-> FALSE]
    ELSE [rules |-> rs, ok |-> TRUE]

\* sshutils.Run of one iptables command on a firewall: -I inserts the rule,
\* -D deletes the first matching rule and fails when there is none, -S lists
Exec(rs, cmd) ==
    IF cmd.op = "-I" THEN [rules |-> <<CmdRule(cmd)>> \o rs, ok |-> TRUE]
    ELSE IF cmd.op = "-D"
    THEN IF \E i \in 1..Len(rs) : rs[i] = CmdRule(cmd)
         THEN LET i == CHOOSE i \in 1..Len(rs) :
                           rs[i] = CmdRule(cmd) /\ \A j \in 1..(i - 1) : rs[j] # CmdRule(cmd)
              IN  [rules |-> SubSeq(rs, 1, i - 1) \o SubSeq(rs, i + 1, Len(rs)),
                   ok |-> TRUE]
         ELSE [rules |-> rs, ok |-> FALSE]
    ELSE [rules |-> rs, ok |-> TRUE]

RECURSIVE RunCmds(_, _, _, _)
\* the commands cmds run in order from index k on, stopping at the first that
\* fails; the command at index failAt is the one the connection fails on
\* (0: none).  at is the index of the failing command, 0 when all succeeded.
RunCmds(rs, cmds, k, failAt) ==
    IF k > Len(cmds) THEN [rules |-> rs, err |-> NoErr, at |-> 0]
    ELSE IF k = failAt
    THEN [rules |-> rs, err |-> [Err("Transport", "ssh") EXCEPT !.cmd = cmds[k]], at |-> k]
    ELSE LET r == Exec(rs, cmds[k])
         IN  IF ~r.ok
             THEN [rules |-> rs, err |-> [Err("ExitStatus", "ssh") EXCEPT !.cmd = cmds[k]],
                   at |-> k]
             ELSE RunCmds(r.rules, cmds, k + 1, failAt)

RECURSIVE PartitionCmds(_, _)
\* the commands PartitionNetwork issues on g for the list cluster
PartitionCmds(g, cluster) ==
    IF cluster = <<>> THEN <<>>
    ELSE LET node == Head(cluster)
         IN  (IF node # g
              THEN <<Cmd("-I", Rule("INPUT", PrivateAddr(node))),
                     Cmd("-I", Rule("OUTPUT", PrivateAddr(node)))>>
              ELSE <<>>) \o PartitionCmds(g, Tail(cluster))

RECURSIVE UnpartitionCmdsInputOnly(_, _)
\* a heal that forgets the OUTPUT rule of every peer
UnpartitionCmdsInputOnly(g, cluster) ==
    IF cluster = <<>> THEN <<>>
    ELSE LET node == Head(cluster)
         IN  (IF node # g
              THEN <<CmdList,
                     Cmd("-D", Rule("INPUT", PrivateAddr(node)))>>
              ELSE <<>>) \o UnpartitionCmdsInputOnly(g, Tail(cluster))

RECURSIVE UnpartitionCmds(_, _)
\* the commands UnpartitionNetwork issues on g for the list cluster
UnpartitionCmds(g, cluster) ==
    IF cluster = <<>> THEN <<>>
    ELSE LET node == Head(cluster)
         IN  (IF node # g
              THEN <<CmdList,
                     Cmd("-D", Rule("INPUT", PrivateAddr(node))),
                     Cmd("-D", Rule("OUTPUT", PrivateAddr(node)))>>
              ELSE <<>>) \o UnpartitionCmds(g, Tail(cluster))

\* an isolation that reports success whatever its commands returned
PartitionNetworkSwallow(g, cluster, rs, failAt) ==
    [RunCmds(rs, PartitionCmds(g, cluster), 1, failAt) EXCEPT !.err = NoErr]

\* an isolation that takes back what it installed when a command fails
PartitionNetworkRollsBack(g, cluster, rs, failAt) ==
    LET r == RunCmds(rs, PartitionCmds(g, cluster), 1, failAt)
    IN  [r EXCEPT !.err = Wrap(r.err, "iptables"),
                  !.rules = IF r.err.kind = "nil" THEN r.rules ELSE rs]

\* gravity.PartitionNetwork(ctx, cluster) on node g whose firewall is rs
PartitionNetwork(g, cluster, rs, failAt) ==
    LET r == RunCmds(rs, PartitionCmds(g, cluster), 1, failAt)
    IN  [r EXCEPT !.err = Wrap(r.err, "iptables")]

\* a heal that reports success whatever its commands returned
UnpartitionNetworkSwallow(g, cluster, rs, failAt) ==
    [RunCmds(rs, UnpartitionCmds(g, cluster), 1, failAt) EXCEPT !.err = NoErr]

\* gravity.UnpartitionNetwork(ctx, cluster) on node g whose firewall is rs
UnpartitionNetwork(g, cluster, rs, failAt) ==
    LET r == RunCmds(rs, UnpartitionCmds(g, cluster), 1, failAt)
    IN  [r EXCEPT !.err = Wrap(r.err, "iptables")]


(***************************************************************************)
(* The retry engine, wait.Retryer.Do: it calls the attempt function up to  *)
(* Attempts times, sleeping Delay after a keep-waiting outcome; the sleep  *)
(* ends early when the context is done.                                    *)
(***************************************************************************)
\* the three outcomes of an attempt function
Success == [kind |-> "nil", reason |-> "", err |-> NoErr]
Continue(reason) == [kind |-> "continue", reason |-> reason, err |-> NoErr]
Abort(e) == [kind |-> "abort", reason |-> "", err |-> e]

\* no Retryer is running
NoRetry == [attempts |-> 0, calls |-> 0, state |-> "idle", last |-> "",
            err |-> NoErr]

\* wait.Retryer{Attempts: attempts} at the start of Do
Retryer(attempts) == [NoRetry EXCEPT !.attempts = attempts, !.state = "running"]

\* an engine that keeps polling after abort-now, as after keep-waiting
RetryerStepAbortContinues(r, o, ctxDone) ==
    LET n == r.calls + 1
    IN  IF o.kind = "nil"
        THEN [r EXCEPT !.calls = n, !.state = "done", !.err = NoErr]
        ELSE IF n >= r.attempts
        THEN [r EXCEPT !.calls = n, !.state = "done", !.last = o.reason,
                       !.err = Err("RetriesExhausted", o.reason)]
        ELSE [r EXCEPT !.calls = n, !.last = o.reason]

\* an engine that reports the first keep-waiting reason when it gives up
RetryerStepFirstReason(r, o, ctxDone) ==
    LET n == r.calls + 1
        first == IF r.calls = 0 THEN o.reason ELSE r.last
    IN  IF o.kind = "nil"
        THEN [r EXCEPT !.calls = n, !.state = "done", !.err = NoErr]
        ELSE IF o.kind = "abort"
        THEN [r EXCEPT !.calls = n, !.state = "done", !.err = o.err]
        ELSE IF ctxDone
        THEN [r EXCEPT !.calls = n, !.state = "done", !.last = first,
                       !.err = Err("Cancelled", first)]
        ELSE IF n >= r.attempts
        THEN [r EXCEPT !.calls = n, !.state = "done", !.last = first,
                       !.err = Err("RetriesExhausted", first)]
        ELSE [r EXCEPT !.calls = n, !.last = first]

\* an engine that allows one invocation more than Attempts
RetryerStepOneMore(r, o, ctxDone) ==
    LET n == r.calls + 1
    IN  IF o.kind = "nil"
        THEN [r EXCEPT !.calls = n, !.state = "done", !.err = NoErr]
        ELSE IF o.kind = "abort"
        THEN [r EXCEPT !.calls = n, !.state = "done", !.err = o.err]
        ELSE IF ctxDone
        THEN [r EXCEPT !.calls = n, !.state = "done", !.last = o.reason,
                       !.err = Err("Cancelled", o.reason)]
        ELSE IF n > r.attempts
        THEN [r EXCEPT !.calls = n, !.state = "done", !.last = o.reason,
                       !.err = Err("RetriesExhausted", o.reason)]
        ELSE [r EXCEPT !.calls = n, !.last = o.reason]

\* one invocation of the attempt function by Do and what Do makes of its
\* outcome o; ctxDone: the context is done before the sleep that follows a
\* keep-waiting outcome has elapsed
RetryerStep(r, o, ctxDone) ==
    LET n == r.calls + 1
    IN  IF o.kind = "nil"
        THEN [r EXCEPT !.calls = n, !.state = "done", !.err = NoErr]
        ELSE IF o.kind = "abort"
        THEN [r EXCEPT !.calls = n, !.state = "done", !.err = o.err]
        ELSE IF ctxDone
        THEN [r EXCEPT !.calls = n, !.state = "done", !.last = o.reason,
                       !.err = Err("Cancelled", o.reason)]
        ELSE IF n >= r.attempts
        THEN [r EXCEPT !.calls = n, !.state = "done", !.last = o.reason,
                       !.err = Err("RetriesExhausted", o.reason)]
        ELSE [r EXCEPT !.calls = n, !.last = o.reason]

(***************************************************************************)
(* The attempt functions of Failover.                                      *)
(***************************************************************************)
StatusActive == "active"
StatusDegraded == "degraded"

\* what gravity.Status returns: an error, or a status with its cluster state
StatusResults ==
    {[ok |-> FALSE, state |-> ""]} \cup
    {[ok |-> TRUE, state |-> st] : st \in {StatusActive, StatusDegraded}}

\* an attempt that accepts whatever leader detection returns
retryNewLeaderElectedAnyLeader(cluster, old, e) ==
    IF getLeaderNode(cluster, e).err.kind # "nil"
    THEN Continue("new leader not yet elected")
    ELSE Success

\* an attempt that gives up when it sees several leaders
retryNewLeaderElectedAbortsOnMany(cluster, old, e) ==
    LET r == getLeaderNode(cluster, e)
    IN  IF r.err.kind = "BadParameter" THEN Abort(r.err)
        ELSE IF r.err.kind # "nil" \/ r.leader = old
        THEN Continue("new leader not yet elected")
        ELSE Success

\* the function retryNewLeaderElected(c, cluster, oldLeader) returns
retryNewLeaderElected(cluster, old, e) ==
    LET r == getLeaderNode(cluster, e)
    IN  IF r.err.kind # "nil" \/ r.leader = old
        THEN Continue("new leader not yet elected")
        ELSE Success

\* an attempt that does not look at the state the two leaders agree on
retryClusterIsActiveInSyncOnly(sNew, sOld) ==
    IF ~sNew.ok THEN Continue("status is unavailable on new leader")
    ELSE IF ~sOld.ok THEN Continue("status is unavailable on old leader")
    ELSE IF sNew.state # sOld.state THEN Continue("cluster status is not in sync")
    ELSE Success

\* an attempt that gives up when the two leaders disagree
retryClusterIsActiveAbortsOnDiffer(sNew, sOld) ==
    IF ~sNew.ok THEN Continue("status is unavailable on new leader")
    ELSE IF ~sOld.ok THEN Continue("status is unavailable on old leader")
    ELSE IF sNew.state # sOld.state
    THEN Abort(Err("Status", "cluster status is not in sync"))
    ELSE IF sNew.state # StatusActive THEN Continue("cluster status is not active")
    ELSE Success

\* the function retryClusterIsActive(c, oldLeader, newLeader) returns, sNew
\* and sOld being what Status returns on the new and on the old leader
retryClusterIsActive(sNew, sOld) ==
    IF ~sNew.ok THEN Continue("status is unavailable on new leader")
    ELSE IF ~sOld.ok THEN Continue("status is unavailable on old leader")
    ELSE IF sNew.state # sOld.state THEN Continue("cluster status is not in sync")
    ELSE IF sNew.state # StatusActive THEN Continue("cluster status is not active")
    ELSE Success

\* the Status calls one attempt of retryClusterIsActive makes, in order: the
\* old leader is asked only when the new leader has answered
StatusQueries(sNew) == IF sNew.ok THEN <<"new", "old">> ELSE <<"new">>

(***************************************************************************)
(* Failover(nodes): the scenario, stage by stage.                          *)
(***************************************************************************)
\* Attempts of the two Retryers of Failover
leaderElectionRetries == 2
activeStatusRetries == 3

\* given: the node list Failover was called with; isolate, heal: how the
\* two firewall steps ended; leaderPolls, convPolls: the attempts made by the
\* two retry loops; converged: an attempt saw both leaders active and equal;
\* expired: the deadline of Failover's ctx has passed
NoHist == [given |-> <<>>, isolate |-> "none", heal |-> "none",
           leaderPolls |-> 0, convPolls |-> 0, converged |-> FALSE,
           expired |-> FALSE]
NoResult == [leader |-> Nil, err |-> NoErr, queried |-> <<>>]
NoEnv == [n \in Node |-> [statusOk |-> FALSE, leaderIP |-> NoAddr]]
NoCalls == [ops |-> 0, part |-> 0, heal |-> 0, bad |-> 0, lastOp |-> ""]

\* no clock is running
NoClock == [now |-> 0, deadline |-> 0, delay |-> 0, slept |-> 0]
\* the handle of a node that is not connected (g.ssh = nil)
NoClient == 0
\* every node holds the connection it was created with
Connected == [n \in Node |-> 1]
\* no operation was launched
NoOp == [state |-> "idle"]
\* no Distribute call is running
NoDist == [state |-> "idle"]

\* nothing is timed, launched, distributed or disconnected
Quiet == clock = NoClock /\ ssh = Connected /\ oper = NoOp /\ dist = NoDist

\* the state before any operation
Start ==
    /\ oldLeader = Nil
    /\ newLeader = Nil
    /\ partitions = <<<<>>, <<>>>>
    /\ rules = [n \in Node |-> <<>>]
    /\ err = NoErr
    /\ last = NoResult
    /\ calls = NoCalls

Init ==
    /\ pc = "FindLeader"
    /\ nodes \in Clusters
    /\ hist = [NoHist EXCEPT !.given = nodes]
    /\ Start
    /\ Quiet
    /\ retry = NoRetry
    /\ env = NoEnv
    /\ target = Nil
    /\ script = <<>>

\* line 32: ctx, cancel := context.WithTimeout(c.ctx, c.timeouts.Status).
\* Whether the deadline of ctx has passed when a step ends: once passed, it
\* stays passed
Expiry == {b \in BOOLEAN : hist.expired => b}

\* the commands at which a run of cmds under ctx can fail (0: none): when ctx
\* is done the first command fails
FailPoints(cmds) ==
    IF hist.expired /\ cmds # <<>> THEN {1} ELSE 0..Len(cmds)

\* what the nodes can show to a leader detection under ctx: when ctx is done
\* every status query fails
EnvsUnderCtx == IF hist.expired THEN {NoEnv} ELSE Envs

\* a failing stage that hands its error on and goes to the heal step
ReturnViaHeal(e) == pc' = "Heal" /\ err' = e

\* Failover returns e
Return(e) == pc' = "Done" /\ err' = e

\* lines 35-41: oldLeader, err := getLeaderNode(ctx, nodes)
FindLeader ==
    /\ pc = "FindLeader"
    /\ \E e \in EnvsUnderCtx :
         LET r == getLeaderNode(nodes, e)
         IN  IF r.err.kind # "nil"
             THEN Return(Wrap(r.err, "")) /\ UNCHANGED oldLeader
             ELSE pc' = "Isolate" /\ oldLeader' = r.leader /\ UNCHANGED err
    /\ \E exp \in Expiry : hist' = [hist EXCEPT !.expired = exp]
    /\ UNCHANGED <<more, nodes, newLeader, partitions, rules, retry, env, last,
                   target, calls, script>>

\* lines 43-55: oldLeader.PartitionNetwork(ctx, nodes), then
\* getPartitions(nodes, oldLeader) and the Retryer of the election
Isolate ==
    /\ pc = "Isolate"
    /\ \E failAt \in FailPoints(PartitionCmds(oldLeader, nodes)), exp \in Expiry :
         LET r == PartitionNetwork(oldLeader, nodes, rules[oldLeader], failAt)
             p == getPartitions(nodes, oldLeader)
         IN  /\ rules' = [rules EXCEPT ![oldLeader] = r.rules]
             /\ IF r.err.kind # "nil"
                THEN /\ Return(Wrap(r.err, "failed to create network partition"))
                     /\ hist' = [hist EXCEPT !.isolate = r.err.kind,
                                             !.expired = exp]
                     /\ UNCHANGED <<nodes, partitions, retry>>
                ELSE /\ pc' = "AwaitNewLeader"
                     /\ hist' = [hist EXCEPT !.isolate = "ok", !.expired = exp]
                     /\ partitions' = p.parts
                     /\ nodes' = p.backing
                     /\ retry' = Retryer(leaderElectionRetries)
                     /\ UNCHANGED err
    /\ UNCHANGED <<more, oldLeader, newLeader, env, last, target, calls, script>>

\* an election loop that removes the old leader's rules when it gives up
AwaitNewLeaderCleansUp ==
    /\ pc = "AwaitNewLeader"
    /\ retry.state = "running"
    /\ \E e \in Envs, ctxDone \in Expiry :
         LET o == retryNewLeaderElected(partitions[2], oldLeader, e)
             r == RetryerStep(retry, o, ctxDone)
         IN  /\ retry' = r
             /\ IF r.state = "running" THEN UNCHANGED <<pc, err, rules>>
                ELSE IF r.err.kind # "nil"
                THEN /\ Return(Wrap(r.err, "new leader was not elected"))
                     /\ rules' = [rules EXCEPT ![oldLeader] = <<>>]
                ELSE pc' = "GetNewLeader" /\ UNCHANGED <<err, rules>>
             /\ hist' = [hist EXCEPT !.leaderPolls = @ + 1, !.expired = ctxDone]
    /\ UNCHANGED <<more, nodes, oldLeader, newLeader, partitions, env, last,
                   target, calls, script>>

\* lines 56-58: one attempt of retry.Do(ctx, retryNewLeaderElected(...))
AwaitNewLeader ==
    /\ pc = "AwaitNewLeader"
    /\ retry.state = "running"
    /\ \E e \in Envs, ctxDone \in Expiry :
         LET o == retryNewLeaderElected(partitions[2], oldLeader, e)
             r == RetryerStep(retry, o, ctxDone)
         IN  /\ retry' = r
             /\ IF r.state = "running" THEN UNCHANGED <<pc, err>>
                ELSE IF r.err.kind # "nil"
                THEN Return(Wrap(r.err, "new leader was not elected"))
                ELSE pc' = "GetNewLeader" /\ UNCHANGED err
             /\ hist' = [hist EXCEPT !.leaderPolls = @ + 1, !.expired = ctxDone]
    /\ UNCHANGED <<more, nodes, oldLeader, newLeader, partitions, rules, env, last,
                   target, calls, script>>

\* lines 59-66: newLeader, err := getLeaderNode(ctx, partitions[1])
GetNewLeader ==
    /\ pc = "GetNewLeader"
    /\ \E e \in EnvsUnderCtx :
         LET r == getLeaderNode(partitions[2], e)
         IN  IF r.err.kind # "nil"
             THEN Return(Wrap(r.err, "")) /\ UNCHANGED newLeader
             ELSE pc' = "VerifyHealth" /\ newLeader' = r.leader /\ UNCHANGED err
    /\ \E exp \in Expiry : hist' = [hist EXCEPT !.expired = exp]
    /\ UNCHANGED <<more, nodes, oldLeader, partitions, rules, retry, env, last,
                   target, calls, script>>

\* a health check that removes the old leader's rules when it fails
VerifyHealthCleansUp ==
    /\ pc = "VerifyHealth"
    /\ \E ok \in BOOLEAN :
         IF ok THEN pc' = "Heal" /\ UNCHANGED <<err, rules>>
         ELSE /\ Return(Wrap(Err("Status", "status"),
                             "cluster partition is nonoperational"))
              /\ rules' = [rules EXCEPT ![oldLeader] = <<>>]
    /\ \E exp \in Expiry : hist' = [hist EXCEPT !.expired = exp]
    /\ UNCHANGED <<more, nodes, oldLeader, newLeader, partitions, retry,
                   env, last, target, calls, script>>

\* lines 68-74: c.Status(partitions[1])
VerifyHealth ==
    /\ pc = "VerifyHealth"
    /\ \E ok \in BOOLEAN :
         IF ok THEN pc' = "Heal" /\ UNCHANGED err
         ELSE Return(Wrap(Err("Status", "status"),
                          "cluster partition is nonoperational"))
    /\ \E exp \in Expiry : hist' = [hist EXCEPT !.expired = exp]
    /\ UNCHANGED <<more, nodes, oldLeader, newLeader, partitions, rules, retry,
                   env, last, target, calls, script>>

\* lines 76-84: oldLeader.UnpartitionNetwork(ctx, nodes), then the Retryer of
\* the convergence
Heal ==
    /\ pc = "Heal"
    /\ \E failAt \in FailPoints(UnpartitionCmds(oldLeader, nodes)), exp \in Expiry :
         LET r == UnpartitionNetwork(oldLeader, nodes, rules[oldLeader], failAt)
         IN  /\ rules' = [rules EXCEPT ![oldLeader] = r.rules]
             /\ IF r.err.kind # "nil"
                THEN /\ Return(Wrap(r.err, "failed to remove network partition"))
                     /\ hist' = [hist EXCEPT !.heal = r.err.kind, !.expired = exp]
                     /\ UNCHANGED retry
                ELSE /\ pc' = "AwaitConvergence"
                     /\ hist' = [hist EXCEPT !.heal = "ok", !.expired = exp]
                     /\ retry' = Retryer(activeStatusRetries)
                     /\ UNCHANGED err
    /\ UNCHANGED <<more, nodes, oldLeader, newLeader, partitions, env, last, target,
                   calls, script>>

\* a convergence loop that runs under a context of its own, which is never
\* done
AwaitConvergenceOwnContext ==
    /\ pc = "AwaitConvergence"
    /\ retry.state = "running"
    /\ \E sNew \in StatusResults, sOld \in StatusResults, ctxDone \in Expiry :
         LET o == retryClusterIsActive(sNew, sOld)
             r == RetryerStep(retry, o, FALSE)
         IN  /\ retry' = r
             /\ IF r.state = "running" THEN UNCHANGED <<pc, err>>
                ELSE Return(Wrap(r.err, ""))
             /\ hist' = [hist EXCEPT
                   !.convPolls = @ + 1,
                   !.expired = ctxDone,
                   !.converged = (@ \/ (/\ sNew.ok /\ sOld.ok
                                        /\ sNew.state = sOld.state
                                        /\ sNew.state = "active"))]
    /\ UNCHANGED <<more, nodes, oldLeader, newLeader, partitions, rules, env, last,
                   target, calls, script>>

\* lines 85-87: one attempt of retry.Do(ctx, retryClusterIsActive(...)); when
\* Do returns, Failover returns what it returned
AwaitConvergence ==
    /\ pc = "AwaitConvergence"
    /\ retry.state = "running"
    /\ \E sNew \in StatusResults, sOld \in StatusResults, ctxDone \in Expiry :
         LET o == retryClusterIsActive(sNew, sOld)
             r == RetryerStep(retry, o, ctxDone)
         IN  /\ retry' = r
             /\ IF r.state = "running" THEN UNCHANGED <<pc, err>>
                ELSE Return(Wrap(r.err, ""))
             /\ hist' = [hist EXCEPT
                   !.convPolls = @ + 1,
                   !.expired = ctxDone,
                   !.converged = (@ \/ (/\ sNew.ok /\ sOld.ok
                                        /\ sNew.state = sOld.state
                                        /\ sNew.state = "active"))]
    /\ UNCHANGED <<more, nodes, oldLeader, newLeader, partitions, rules, env, last,
                   target, calls, script>>

Next ==
    \/ FindLeader
    \/ Isolate
    \/ AwaitNewLeader
    \/ GetNewLeader
    \/ VerifyHealth
    \/ Heal
    \/ AwaitConvergence

Spec == Init /\ [][Next]_vars


(***************************************************************************)
(* Leader detection on its own: one call of getLeaderNode on a node list,  *)
(* the nodes showing the views env.                                        *)
(***************************************************************************)
InitLeader ==
    /\ hist = NoHist
    /\ pc = "Detect"
    /\ nodes \in Clusters
    /\ Start
    /\ Quiet
    /\ retry = NoRetry
    /\ env \in Envs
    /\ target = Nil
    /\ script = <<>>

Detect ==
    /\ pc = "Detect"
    /\ pc' = "Detected"
    /\ last' = getLeaderNode(nodes, env)
    /\ err' = last'.err
    /\ UNCHANGED <<more, nodes, oldLeader, newLeader, partitions, rules, retry, hist,
                   env, target, calls, script>>

NextLeader == Detect

SpecLeader == InitLeader /\ [][NextLeader]_vars

(***************************************************************************)
(* The partition controller on its own: PartitionNetwork and               *)
(* UnpartitionNetwork called on node target with the node list nodes.      *)
(***************************************************************************)
\* calls made on the target in one run
MaxOps == 3

InitNet ==
    /\ hist = NoHist
    /\ pc = "Net"
    /\ nodes \in Clusters
    /\ Start
    /\ Quiet
    /\ retry = NoRetry
    /\ env = NoEnv
    /\ target \in Node
    /\ script = <<>>

\* the record of one more call of op that returned e
Called(op, e) ==
    [ops |-> calls.ops + 1,
     part |-> calls.part + (IF op = "partition" /\ e.kind = "nil" THEN 1 ELSE 0),
     heal |-> calls.heal + (IF op = "heal" /\ e.kind = "nil" THEN 1 ELSE 0),
     bad |-> calls.bad + (IF e.kind = "nil" THEN 0 ELSE 1),
     lastOp |-> op]

NetPartition ==
    /\ pc = "Net"
    /\ calls.ops < MaxOps
    /\ \E failAt \in 0..Len(PartitionCmds(target, nodes)) :
         LET r == PartitionNetwork(target, nodes, rules[target], failAt)
         IN  /\ rules' = [rules EXCEPT ![target] = r.rules]
             /\ err' = r.err
             /\ calls' = Called("partition", r.err)
    /\ UNCHANGED <<more, nodes, pc, oldLeader, newLeader, partitions, retry, hist,
                   env, last, target, script>>

NetUnpartition ==
    /\ pc = "Net"
    /\ calls.ops < MaxOps
    /\ \E failAt \in 0..Len(UnpartitionCmds(target, nodes)) :
         LET r == UnpartitionNetwork(target, nodes, rules[target], failAt)
         IN  /\ rules' = [rules EXCEPT ![target] = r.rules]
             /\ err' = r.err
             /\ calls' = Called("heal", r.err)
    /\ UNCHANGED <<more, nodes, pc, oldLeader, newLeader, partitions, retry, hist,
                   env, last, target, script>>

NextNet == NetPartition \/ NetUnpartition

SpecNet == InitNet /\ [][NextNet]_vars

(***************************************************************************)
(* The retry engine on its own: Do with an attempt function that returns   *)
(* the outcomes of script, one per call.                                   *)
(***************************************************************************)
Outcomes ==
    {Success, Continue("r1"), Continue("r2"), Abort(Err("Fatal", "e1"))}

InitRetry ==
    /\ hist = NoHist
    /\ pc = "Retry"
    /\ nodes = <<>>
    /\ Start
    /\ Quiet
    /\ \E a \in 1..MaxAttempts : retry = Retryer(a)
    /\ env = NoEnv
    /\ target = Nil
    /\ script \in [1..(MaxAttempts + 1) -> Outcomes]

\* Do invokes the attempt function once more
Invoke ==
    /\ pc = "Retry"
    /\ retry.state = "running"
    /\ \E ctxDone \in BOOLEAN :
         retry' = RetryerStep(retry, script[retry.calls + 1], ctxDone)
    /\ err' = retry'.err
    /\ UNCHANGED <<more, nodes, pc, oldLeader, newLeader, partitions, rules, hist,
                   env, last, target, calls, script>>

NextRetry == Invoke

SpecRetry == InitRetry /\ [][NextRetry]_vars


(***************************************************************************)
(* The retry engine under a deadline: Do(ctx, fn) where ctx is done at     *)
(* clock.deadline and the Retryer sleeps clock.delay after every           *)
(* keep-waiting outcome.                                                   *)
(***************************************************************************)
\* the longest Delay, the latest deadline, and the longest time one call of
\* the attempt function takes
MaxDelay == 2
MaxDeadline == 4
MaxDur == 1

\* a sleep that is never cut short: the context is looked at only afterwards
SleepUninterruptible(t, delay, deadline) ==
    {[ctxDone |-> (t + delay >= deadline), now |-> t + delay, slept |-> delay]}

\* select { case <-ctx.Done(): ... case <-time.After(r.Delay): } entered at
\* time t: the ways it can end.  The context wins when it is done before the
\* delay has elapsed, either case can be taken when both are ready.
Sleep(t, delay, deadline) ==
    IF t >= deadline
    THEN {[ctxDone |-> TRUE, now |-> t, slept |-> 0]}
    ELSE IF t + delay > deadline
    THEN {[ctxDone |-> TRUE, now |-> deadline, slept |-> deadline - t]}
    ELSE IF t + delay = deadline
    THEN {[ctxDone |-> TRUE, now |-> deadline, slept |-> delay],
          [ctxDone |-> FALSE, now |-> deadline, slept |-> delay]}
    ELSE {[ctxDone |-> FALSE, now |-> t + delay, slept |-> delay]}

InitTimed ==
    /\ hist = NoHist
    /\ pc = "Timed"
    /\ nodes = <<>>
    /\ Start
    /\ \E a \in 1..MaxAttempts : retry = Retryer(a)
    /\ env = NoEnv
    /\ target = Nil
    /\ script \in [1..(MaxAttempts + 1) -> {Success, Continue("r1")}]
    /\ \E dl \in 0..MaxDeadline, d \in 1..MaxDelay :
         clock = [now |-> 0, deadline |-> dl, delay |-> d, slept |-> 0]
    /\ ssh = Connected /\ oper = NoOp /\ dist = NoDist

\* Do invokes the attempt function, which takes dur, and sleeps after a
\* keep-waiting outcome
InvokeTimed ==
    /\ pc = "Timed"
    /\ retry.state = "running"
    /\ \E dur \in 0..MaxDur :
         LET t == clock.now + dur
             o == script[retry.calls + 1]
         IN  IF o.kind # "continue"
             THEN /\ retry' = RetryerStep(retry, o, FALSE)
                  /\ clock' = [clock EXCEPT !.now = t, !.slept = 0]
             ELSE \E sl \in Sleep(t, clock.delay, clock.deadline) :
                  /\ retry' = RetryerStep(retry, o, sl.ctxDone)
                  /\ clock' = [clock EXCEPT !.now = sl.now, !.slept = sl.slept]
    /\ err' = retry'.err
    /\ UNCHANGED <<nodes, pc, oldLeader, newLeader, partitions, rules, hist,
                   env, last, target, calls, script, ssh, oper, dist>>

NextTimed == InvokeTimed

SpecTimed == InitTimed /\ [][NextTimed]_vars

(***************************************************************************)
(* runOp: launch a long-running operation, take its identifier from the    *)
(* output, poll its status until it is final.  A string is the sequence of *)
(* its tokens: words, digits groups, and single punctuation or whitespace  *)
(* characters.                                                             *)
(***************************************************************************)
\* Attempts of runOp's Retryer (1000 in the source), scaled down
runOpAttempts == 3

opStatusCompleted == <<"completed">>
opStatusFailed == <<"failed">>

Quote == "\""
\* unicode.IsSpace on the tokens used
IsSpace(c) == c \in {" ", "\n", "\t"}
\* the tokens all of whose characters are in [a-z0-9\-]
IdTokens == {"op", "-", "123", "abc", "def", "456", "x1", "launched",
             "operation", "for", "upgrade", "started", "now"}

RECURSIVE TrimLeft(_)
TrimLeft(str) ==
    IF str # <<>> /\ IsSpace(Head(str)) THEN TrimLeft(Tail(str)) ELSE str

RECURSIVE TrimRight(_)
TrimRight(str) ==
    IF str # <<>> /\ IsSpace(str[Len(str)])
    THEN TrimRight(SubSeq(str, 1, Len(str) - 1))
    ELSE str

\* strings.TrimSpace
TrimSpace(str) == TrimRight(TrimLeft(str))

\* the literal the pattern begins with: launched operation "
rePrefix == <<"launched", " ", "operation", " ", Quote>>

\* the end of the group ([a-z0-9\-]+) that starts at position i, when the
\* group is followed by a quote; 0 when it is not
RECURSIVE GroupEnd(_, _, _)
GroupEnd(str, i, j) ==
    IF j > Len(str) THEN 0
    ELSE IF str[j] \in IdTokens THEN GroupEnd(str, i, j + 1)
    ELSE IF str[j] = Quote /\ j > i THEN j - 1
    ELSE 0

\* whether the pattern matches at position i
MatchesAt(str, i) ==
    /\ i + Len(rePrefix) - 1 <= Len(str)
    /\ SubSeq(str, i, i + Len(rePrefix) - 1) = rePrefix
    /\ GroupEnd(str, i + Len(rePrefix), i + Len(rePrefix)) # 0

\* the pattern that returns the text from the quote on as its group
FindStringSubmatchToEnd(str) ==
    LET at == {i \in 1..Len(str) : MatchesAt(str, i)}
    IN  IF at = {} THEN <<>>
        ELSE LET i == CHOOSE k \in at : \A l \in at : k <= l
             IN  <<SubSeq(str, i, Len(str)),
                   SubSeq(str, i + Len(rePrefix), Len(str))>>

\* reGravityExtended.FindStringSubmatch: the leftmost match of
\* launched operation "([a-z0-9\-]+)".* and its group, or nothing
FindStringSubmatch(str) ==
    LET at == {i \in 1..Len(str) : MatchesAt(str, i)}
    IN  IF at = {} THEN <<>>
        ELSE LET i == CHOOSE k \in at : \A l \in at : k <= l
                 g == i + Len(rePrefix)
             IN  <<SubSeq(str, i, Len(str)),
                   SubSeq(str, g, GroupEnd(str, g, g))>>

\* the identifier runOp polls given the output of the launch
opCode(out) ==
    LET match == FindStringSubmatch(out)
    IN  IF Len(match) = 2 THEN match[2] ELSE out

\* outputs of the launch command
BareId == <<"op", "-", "123">>
Extended ==
    <<"launched", " ", "operation", " ", Quote, "abc", "-", "def", "-", "456",
      Quote, " ", "for", " ", "upgrade">>
FreeText == <<"started", " ", Quote, "abc", Quote, " ", "now">>
LaunchOutputs ==
    {BareId, Extended, FreeText,
     <<"launched", " ", "operation", " ", Quote, Quote>>,
     <<"launched", " ", "operation", " ", Quote, "Abc", Quote>>,
     <<"started", ":", " ", "launched", " ", "operation", " ", Quote, "x1",
       Quote, "\n">>,
     <<"launched", " ", "operation", " ", Quote, "x1">>}

\* what sshutils.RunAndParse hands back: an error or not, and the output
Ran(failed, out) == [failed |-> failed, out |-> out]
LaunchResults == {Ran(FALSE, o) : o \in LaunchOutputs} \union {Ran(TRUE, <<>>)}
PollResults ==
    {Ran(TRUE, <<>>), Ran(TRUE, <<"failed">>),
     Ran(FALSE, <<"completed">>), Ran(FALSE, <<" ", "completed", "\n">>),
     Ran(FALSE, <<"failed">>), Ran(FALSE, <<"failed", "\n">>),
     Ran(FALSE, <<"running">>), Ran(FALSE, <<>>)}

\* the error of wait.Abort(trace.Errorf("%s: response=%s, err=%v", ...))
OpFailed == Err("Errorf", "response=failed")

\* the attempt function that compares the response as it came
PollOutcomeNoTrim(res) ==
    IF res.failed THEN Continue("cmd")
    ELSE IF res.out = opStatusCompleted THEN Success
    ELSE IF res.out = opStatusFailed THEN Abort(OpFailed)
    ELSE Continue("non-final / unknown op status")

\* the attempt function that looks at the response before the error
PollOutcomeResponseFirst(res) ==
    IF TrimSpace(res.out) = opStatusFailed THEN Abort(OpFailed)
    ELSE IF res.failed THEN Continue("cmd")
    ELSE IF TrimSpace(res.out) = opStatusCompleted THEN Success
    ELSE Continue("non-final / unknown op status")

\* the attempt function that gives up on a status it does not know
PollOutcomeUnknownAborts(res) ==
    IF res.failed THEN Continue("cmd")
    ELSE IF TrimSpace(res.out) = opStatusCompleted THEN Success
    ELSE Abort(OpFailed)

\* the attempt function of runOp, given what the status command returned
PollOutcome(res) ==
    IF res.failed THEN Continue("cmd")
    ELSE IF TrimSpace(res.out) = opStatusCompleted THEN Success
    ELSE IF TrimSpace(res.out) = opStatusFailed THEN Abort(OpFailed)
    ELSE Continue("non-final / unknown op status")

InitOp ==
    /\ hist = NoHist
    /\ pc = "runOp"
    /\ nodes = <<>>
    /\ Start
    /\ retry = NoRetry
    /\ env = NoEnv
    /\ target \in Node
    /\ script \in [1..runOpAttempts -> PollResults]
    /\ \E l \in LaunchResults :
         oper = [state |-> "start", node |-> target, launch |-> l,
                 code |-> <<>>, polled |-> <<>>]
    /\ clock = NoClock /\ ssh = Connected /\ dist = NoDist

\* a runOp that goes on to poll after a launch that failed
LaunchThenPollAnyway ==
    /\ pc = "runOp"
    /\ oper.state = "start"
    /\ oper' = [oper EXCEPT !.state = "polling",
                            !.code = opCode(oper.launch.out)]
    /\ retry' = Retryer(runOpAttempts)
    /\ UNCHANGED err
    /\ UNCHANGED <<nodes, pc, oldLeader, newLeader, partitions, rules, hist,
                   env, last, target, calls, script, clock, ssh, dist>>

\* runOp up to the construction of the Retryer
Launch ==
    /\ pc = "runOp"
    /\ oper.state = "start"
    /\ IF oper.launch.failed
       THEN /\ oper' = [oper EXCEPT !.state = "done"]
            /\ err' = Wrap(Err("Transport", ""), "")
            /\ UNCHANGED retry
       ELSE /\ oper' = [oper EXCEPT !.state = "polling",
                                    !.code = opCode(oper.launch.out)]
            /\ retry' = Retryer(runOpAttempts)
            /\ UNCHANGED err
    /\ UNCHANGED <<nodes, pc, oldLeader, newLeader, partitions, rules, hist,
                   env, last, target, calls, script, clock, ssh, dist>>

\* one attempt of retry.Do in runOp, and runOp's return when it was the last
Poll ==
    /\ pc = "runOp"
    /\ oper.state = "polling"
    /\ retry.state = "running"
    /\ \E ctxDone \in BOOLEAN :
         retry' = RetryerStep(retry, PollOutcome(script[retry.calls + 1]), ctxDone)
    /\ oper' = [oper EXCEPT
                  !.polled = Append(@, [node |-> oper.node, id |-> oper.code]),
                  !.state = IF retry'.state = "done" THEN "done" ELSE @]
    /\ err' = IF retry'.state = "done" THEN Wrap(retry'.err, "") ELSE err
    /\ UNCHANGED <<nodes, pc, oldLeader, newLeader, partitions, rules, hist,
                   env, last, target, calls, script, clock, ssh, dist>>

NextOp == Launch \/ Poll

SpecOp == InitOp /\ [][NextOp]_vars

(***************************************************************************)
(* The commands of one node and its connection handle g.ssh.               *)
(***************************************************************************)
\* the commands issued in one run, and the attempts of sshClient to connect
MaxCmds == 4
MaxDials == 2

\* no command was run
NoCommand == [state |-> "node", cmd |-> "", seq |-> 0, wasOffline |-> FALSE,
              dials |-> 0, dialed |-> NoClient]

Offline(n) == ssh[n] = NoClient

\* what running a command through client can end in.  Nothing below the call
\* looks at whether the client is nil: with a nil client the call fails like
\* any failed transport, or dereferences nil.
RunOutcomes(client) ==
    IF client = NoClient
    THEN {Err("Transport", ""), Err("Panic", "nil client")}
    ELSE {NoErr, Err("Transport", ""), Err("ExitStatus", "")}

\* the commands that do nothing but run through g.Client()
PlainCommands ==
    {"Status", "IsLeader", "PartitionNetwork", "UnpartitionNetwork", "runOp",
     "RunInPlanet", "TransferFile"}

\* the record of one more command on node n
Command(n, name) ==
    [NoCommand EXCEPT !.cmd = name, !.seq = oper.seq + 1,
                      !.wasOffline = Offline(n)]

\* a command has returned e, or has brought the program down
Returned(e) ==
    /\ err' = e
    /\ pc' = IF e.kind = "Panic" THEN "crashed" ELSE pc

InitNode ==
    /\ hist = NoHist
    /\ pc = "node"
    /\ nodes = <<>>
    /\ Start
    /\ retry = NoRetry
    /\ env = NoEnv
    /\ target = Nil
    /\ script = <<>>
    /\ oper = NoCommand
    /\ clock = NoClock /\ ssh = Connected /\ dist = NoDist

\* Status, PartitionNetwork, runOp, ...: sshutils.Run(ctx, g.Client(), ...)
RunPlain(n) ==
    /\ pc = "node"
    /\ oper.seq < MaxCmds
    /\ \E name \in PlainCommands, e \in RunOutcomes(ssh[n]) :
         /\ oper' = Command(n, name)
         /\ Returned(Wrap(e, ""))
    /\ target' = n
    /\ UNCHANGED <<nodes, oldLeader, newLeader, partitions, rules, retry, hist,
                   env, last, calls, script, clock, ssh, dist>>

\* a PowerOff that forgets the connection whether or not the command ran
PowerOffAlwaysOffline(n) ==
    /\ pc = "node"
    /\ oper.seq < MaxCmds
    /\ \E e \in RunOutcomes(ssh[n]) : Returned(Wrap(e, ""))
    /\ ssh' = [ssh EXCEPT ![n] = NoClient]
    /\ oper' = Command(n, "PowerOff")
    /\ target' = n
    /\ UNCHANGED <<nodes, oldLeader, newLeader, partitions, rules, retry, hist,
                   env, last, calls, script, clock, dist>>

\* gravity.PowerOff
PowerOff(n) ==
    /\ pc = "node"
    /\ oper.seq < MaxCmds
    /\ \E e \in RunOutcomes(ssh[n]) :
         /\ Returned(Wrap(e, ""))
         /\ ssh' = IF e.kind = "nil" THEN [ssh EXCEPT ![n] = NoClient] ELSE ssh
    /\ oper' = Command(n, "PowerOff")
    /\ target' = n
    /\ UNCHANGED <<nodes, oldLeader, newLeader, partitions, rules, retry, hist,
                   env, last, calls, script, clock, dist>>

\* a Reboot that forgets the old connection when it cannot reconnect
RebootDropsHandle(client, e, k) ==
    IF e.kind # "nil"
    THEN [ssh |-> client, err |-> Wrap(e, ""), dials |-> 0, dialed |-> NoClient]
    ELSE IF k = 0
    THEN [ssh |-> NoClient,
          err |-> Wrap(Err("ConnectionProblem", ""), "SSH reconnect"),
          dials |-> MaxDials, dialed |-> NoClient]
    ELSE [ssh |-> client + 1, err |-> NoErr, dials |-> k, dialed |-> client + 1]

\* Reboot on a node whose handle is client: the command ended in e, and
\* node.Client() first succeeded at its k-th call by sshClient (at none of the
\* MaxDials calls when k = 0), handing out the connection client + 1
Reboot(client, e, k) ==
    IF e.kind # "nil"
    THEN [ssh |-> client, err |-> Wrap(e, ""), dials |-> 0, dialed |-> NoClient]
    ELSE IF k = 0
    THEN [ssh |-> client,
          err |-> Wrap(Err("ConnectionProblem", ""), "SSH reconnect"),
          dials |-> MaxDials, dialed |-> NoClient]
    ELSE [ssh |-> client + 1, err |-> NoErr, dials |-> k, dialed |-> client + 1]

RebootNode(n) ==
    /\ pc = "node"
    /\ oper.seq < MaxCmds
    /\ \E e \in RunOutcomes(ssh[n]), k \in 0..MaxDials :
         LET r == Reboot(ssh[n], e, k)
         IN  /\ Returned(r.err)
             /\ ssh' = [ssh EXCEPT ![n] = r.ssh]
             /\ oper' = [Command(n, "Reboot") EXCEPT !.dials = r.dials,
                                                     !.dialed = r.dialed]
    /\ target' = n
    /\ UNCHANGED <<nodes, oldLeader, newLeader, partitions, rules, retry, hist,
                   env, last, calls, script, clock, dist>>

CollectLogs(n) ==
    /\ pc = "node"
    /\ oper.seq < MaxCmds
    /\ IF ssh[n] = NoClient
       THEN Returned(Err("AccessDenied", "cannot collect logs from an offline node"))
       ELSE \E e \in RunOutcomes(ssh[n]) : Returned(Wrap(e, ""))
    /\ oper' = Command(n, "CollectLogs")
    /\ target' = n
    /\ UNCHANGED <<nodes, oldLeader, newLeader, partitions, rules, retry, hist,
                   env, last, calls, script, clock, ssh, dist>>

NextNode ==
    \E n \in Node : RunPlain(n) \/ PowerOff(n) \/ RebootNode(n) \/ CollectLogs(n)

SpecNode == InitNode /\ [][NextNode]_vars

(***************************************************************************)
(* infra.Distribute: one goroutine per node, their errors sent on errCh,   *)
(* a WaitGroup that the caller waits on.                                   *)
(***************************************************************************)
\* the longest list given to Distribute
MaxTasks == 3

\* the lists of distinct nodes given to Distribute
DistLists == {[i \in 1..k |-> i] : k \in 0..MaxTasks}

\* what Run(node, command, os.Stderr) returns, as the value sent on errCh
RunResults(n) == {[node |-> n, err |-> e] : e \in {NoErr, Err("Transport", "")}}

\* a channel that holds nothing: a send waits for a receiver
ChanCapUnbuffered(ns) == 0

\* make(chan error, len(nodes))
ChanCap(ns) == Len(ns)

\* the errors Distribute keeps from what it receives: those that are not nil
NonNil(ch) == SelectSeq(ch, LAMBDA r : r.err.kind # "nil")

\* trace.NewAggregate: nil for no error
NewAggregate(errors) == IF errors = <<>> THEN NoErr ELSE Err("Aggregate", "")

InitDist ==
    /\ hist = NoHist
    /\ pc = "Distribute"
    /\ nodes \in DistLists
    /\ Start
    /\ retry = NoRetry
    /\ env = NoEnv
    /\ target = Nil
    /\ script = <<>>
    /\ dist = [state |-> "loop", loop |-> 1, spawned |-> 0,
               task |-> [t \in 1..Len(nodes) |-> "unborn"],
               ran |-> [t \in 1..Len(nodes) |-> Nil],
               res |-> [t \in 1..Len(nodes) |-> [node |-> Nil, err |-> NoErr]],
               errCh |-> <<>>, cap |-> ChanCap(nodes), wg |-> Len(nodes),
               errors |-> <<>>]
    /\ clock = NoClock /\ ssh = Connected /\ oper = NoOp

\* the go statement of the iteration the loop is in
Go ==
    /\ pc = "Distribute" /\ dist.state = "loop"
    /\ dist.loop <= Len(nodes)
    /\ dist.spawned = dist.loop - 1
    /\ dist' = [dist EXCEPT !.spawned = dist.loop, !.task[dist.loop] = "ready"]
    /\ UNCHANGED <<nodes, pc, oldLeader, newLeader, partitions, rules, retry,
                   err, hist, env, last, target, calls, script, clock, ssh, oper>>

\* the loop takes the next node into its variable node
NextNodeOfLoop ==
    /\ pc = "Distribute" /\ dist.state = "loop"
    /\ dist.spawned = dist.loop
    /\ dist.loop < Len(nodes)
    /\ dist' = [dist EXCEPT !.loop = dist.loop + 1]
    /\ UNCHANGED <<nodes, pc, oldLeader, newLeader, partitions, rules, retry,
                   err, hist, env, last, target, calls, script, clock, ssh, oper>>

\* goroutine t evaluates Run(node, command, os.Stderr): node is the variable
\* of the loop, read when the goroutine gets there
TaskRun(t) ==
    /\ pc = "Distribute"
    /\ dist.task[t] = "ready"
    /\ \E r \in RunResults(nodes[dist.loop]) :
         dist' = [dist EXCEPT !.task[t] = "ran", !.ran[t] = nodes[dist.loop],
                              !.res[t] = r]
    /\ UNCHANGED <<nodes, pc, oldLeader, newLeader, partitions, rules, retry,
                   err, hist, env, last, target, calls, script, clock, ssh, oper>>

\* errCh <- result: waits while the buffer is full
TaskSend(t) ==
    /\ pc = "Distribute"
    /\ dist.task[t] = "ran"
    /\ Len(dist.errCh) < dist.cap
    /\ dist' = [dist EXCEPT !.task[t] = "sent",
                            !.errCh = Append(@, dist.res[t])]
    /\ UNCHANGED <<nodes, pc, oldLeader, newLeader, partitions, rules, retry,
                   err, hist, env, last, target, calls, script, clock, ssh, oper>>

\* wg.Done()
TaskDone(t) ==
    /\ pc = "Distribute"
    /\ dist.task[t] = "sent"
    /\ dist' = [dist EXCEPT !.task[t] = "done", !.wg = @ - 1]
    /\ UNCHANGED <<nodes, pc, oldLeader, newLeader, partitions, rules, retry,
                   err, hist, env, last, target, calls, script, clock, ssh, oper>>

\* wg.Wait() returns, errCh is closed and drained, the aggregate is returned
WaitAndCollect ==
    /\ pc = "Distribute" /\ dist.state = "loop"
    /\ dist.spawned = Len(nodes)
    /\ dist.wg = 0
    /\ dist' = [dist EXCEPT !.state = "returned", !.errCh = <<>>,
                            !.errors = NonNil(dist.errCh)]
    /\ err' = NewAggregate(NonNil(dist.errCh))
    /\ UNCHANGED <<nodes, pc, oldLeader, newLeader, partitions, rules, retry,
                   hist, env, last, target, calls, script, clock, ssh, oper>>

NextDist ==
    \/ Go
    \/ NextNodeOfLoop
    \/ \E t \in 1..Len(nodes) : TaskRun(t) \/ TaskSend(t) \/ TaskDone(t)
    \/ WaitAndCollect

SpecDist == InitDist /\ [][NextDist]_vars

(***************************************************************************)
(* The two attempt functions of Failover on their own: one call of the     *)
(* function retryNewLeaderElected returns, on the list nodes with the old  *)
(* leader target under the views env; one call of the function             *)
(* retryClusterIsActive returns, Status answering script[1] on the new     *)
(* leader and script[2] on the old.                                        *)
(***************************************************************************)
InitAttempt ==
    /\ hist = NoHist
    /\ Start
    /\ Quiet
    /\ retry = NoRetry
    /\ \/ /\ pc = "Election"
          /\ nodes \in Clusters
          /\ env \in Envs
          /\ target \in Node
          /\ script = <<>>
       \/ /\ pc = "Convergence"
          /\ nodes = <<>>
          /\ env = NoEnv
          /\ target = Nil
          /\ script \in [1..2 -> StatusResults]

\* the record of an attempt: what it returned and the Status calls it made
Attempted(o, queries) == [state |-> "attempt", out |-> o, queried |-> queries]

ElectionAttempt ==
    /\ pc = "Election"
    /\ pc' = "Elected"
    /\ oper' = Attempted(retryNewLeaderElected(nodes, target, env),
                         getLeaderNode(nodes, env).queried)
    /\ UNCHANGED <<nodes, oldLeader, newLeader, partitions, rules, retry, err,
                   hist, env, last, target, calls, script, clock, ssh, dist>>

ConvergenceAttempt ==
    /\ pc = "Convergence"
    /\ pc' = "Converged"
    /\ oper' = Attempted(retryClusterIsActive(script[1], script[2]),
                         StatusQueries(script[1]))
    /\ UNCHANGED <<nodes, oldLeader, newLeader, partitions, rules, retry, err,
                   hist, env, last, target, calls, script, clock, ssh, dist>>

NextAttempt == ElectionAttempt \/ ConvergenceAttempt

SpecAttempt == InitAttempt /\ [][NextAttempt]_vars

(***************************************************************************)
(* The install directory of one node, g.installDir, under SetInstaller and *)
(* TransferFile.                                                           *)
(***************************************************************************)
\* g.param.homeDir and the sub-directories a caller names
HomeDir == <<"home">>
Subdirs == {"", "installer", "upload"}

\* filepath.Join(home, sub): an empty element is left out
Join(home, sub) == IF sub = "" THEN home ELSE Append(home, sub)

\* no remote step was run
NotRun == Err("none", "")

\* what a call leaves: the install directory, the error returned, and how
\* the transfer and the unpacking ended
Installer(dir, e, eT, eU) ==
    [installDir |-> dir, err |-> e, transfer |-> eT, unpack |-> eU]

\* a SetInstaller that takes the new directory as soon as the transfer is done
SetInstallerBeforeUnpack(installDir, sub, eT, eU) ==
    LET dir == Join(HomeDir, sub)
    IN  IF eT.kind # "nil" THEN Installer(installDir, Wrap(eT, ""), eT, NotRun)
        ELSE IF eU.kind # "nil" THEN Installer(dir, Wrap(eU, ""), eT, eU)
        ELSE Installer(dir, NoErr, eT, eU)

\* gravity.SetInstaller(ctx, installerURL, subdir) on a node whose install
\* directory is installDir; eT: what sshutils.TransferFile returns, eU: what
\* the tar command returns
SetInstaller(installDir, sub, eT, eU) ==
    LET dir == Join(HomeDir, sub)
    IN  IF eT.kind # "nil" THEN Installer(installDir, Wrap(eT, ""), eT, NotRun)
        ELSE IF eU.kind # "nil" THEN Installer(installDir, Wrap(eU, ""), eT, eU)
        ELSE Installer(dir, NoErr, eT, eU)

\* gravity.TransferFile(ctx, url, subdir)
TransferFile(installDir, sub, eT) ==
    LET dir == Join(HomeDir, sub)
    IN  IF eT.kind # "nil" THEN Installer(installDir, Wrap(eT, ""), eT, NotRun)
        ELSE Installer(dir, NoErr, eT, NotRun)

\* the record of one more call of name with sub that left r
InstallCall(name, sub, r) ==
    [state |-> "install", cmd |-> name, seq |-> oper.seq + 1, sub |-> sub,
     prev |-> oper.installDir, installDir |-> r.installDir,
     transfer |-> r.transfer, unpack |-> r.unpack]

InitInstall ==
    /\ hist = NoHist
    /\ pc = "install"
    /\ nodes = <<>>
    /\ Start
    /\ retry = NoRetry
    /\ env = NoEnv
    /\ target \in Node
    /\ script = <<>>
    /\ oper = [state |-> "install", cmd |-> "", seq |-> 0, sub |-> "",
               prev |-> Join(HomeDir, "installer"),
               installDir |-> Join(HomeDir, "installer"),
               transfer |-> NotRun, unpack |-> NotRun]
    /\ clock = NoClock /\ ssh = Connected /\ dist = NoDist

CallSetInstaller ==
    /\ pc = "install"
    /\ oper.seq < MaxCmds
    /\ \E sub \in Subdirs, eT \in RunOutcomes(ssh[target]),
          eU \in RunOutcomes(ssh[target]) :
         LET r == SetInstaller(oper.installDir, sub, eT, eU)
         IN  /\ oper' = InstallCall("SetInstaller", sub, r)
             /\ err' = r.err
    /\ UNCHANGED <<nodes, pc, oldLeader, newLeader, partitions, rules, retry,
                   hist, env, last, target, calls, script, clock, ssh, dist>>

CallTransferFile ==
    /\ pc = "install"
    /\ oper.seq < MaxCmds
    /\ \E sub \in Subdirs, eT \in RunOutcomes(ssh[target]) :
         LET r == TransferFile(oper.installDir, sub, eT)
         IN  /\ oper' = InstallCall("TransferFile", sub, r)
             /\ err' = r.err
    /\ UNCHANGED <<nodes, pc, oldLeader, newLeader, partitions, rules, retry,
                   hist, env, last, target, calls, script, clock, ssh, dist>>

NextInstall == CallSetInstaller \/ CallTransferFile

SpecInstall == InitInstall /\ [][NextInstall]_vars

(***************************************************************************)
(* Properties.                                                             *)
(***************************************************************************)
\* the nodes of the list that answer true to IsLeader under env
Claimants == {n \in Range(nodes) : IsLeader(n, env[n])}

\* C1: getLeaderNode returns the one node that claims leadership and no
\* error when exactly one node of the list claims it, fails with NotFound
\* when none does, and fails with BadParameter, another kind, when two or
\* more do.
C1_LeaderDetection ==
    pc = "Detected" =>
        /\ Cardinality(Claimants) = 1 =>
               last.err = NoErr /\ last.leader \in Claimants
        /\ Claimants = {} =>
               last.err.kind = "NotFound" /\ last.leader = Nil
        /\ Cardinality(Claimants) >= 2 =>
               last.err.kind = "BadParameter" /\ last.leader = Nil

C1_Witness ==
    /\ pc = "Detected"
    /\ Len(nodes) = 3
    /\ Claimants = {nodes[2]}
    /\ last.leader = nodes[2]
    /\ last.err = NoErr

\* C2: in Failover, whenever the heal step ran and the connection did not
\* fail under it, it removed the rules of every peer the isolate step had
\* blocked and returned success, for every position of the leader in the
\* node list.
C2_HealRemovesRules ==
    hist.heal \notin {"none", "Transport"} =>
        /\ hist.heal = "ok"
        /\ rules[oldLeader] = <<>>

\* C3: starting from a target without block rules, a successful
\* PartitionNetwork followed by a successful UnpartitionNetwork with the same
\* node list leaves the target without any block rule: no packet from or to
\* any node is dropped.
C3_RoundTrip ==
    (/\ calls.ops = 2 /\ calls.part = 1 /\ calls.heal = 1
     /\ calls.lastOp = "heal") =>
        /\ rules[target] = <<>>
        /\ \A p \in Node :
             /\ ~Dropped(rules[target], Inbound(target, p))
             /\ ~Dropped(rules[target], Outbound(target, p))

C3_Witness ==
    /\ calls.ops = 2 /\ calls.part = 1 /\ calls.heal = 1
    /\ calls.lastOp = "heal"
    /\ Len(nodes) = 3
    /\ target = nodes[2]
    /\ rules[target] = <<>>

\* C4: after one successful PartitionNetwork on a target without rules, the
\* target holds exactly two rules for every other node of the list, the
\* packets that arrive from that node and the packets sent to that node are
\* both dropped, and no rule names the target's own address.
C4_BothDirectionsBlocked ==
    (calls.ops = 1 /\ calls.part = 1) =>
        /\ \A p \in Range(nodes) \ {target} :
             /\ Len(RulesFor(rules[target], p)) = 2
             /\ Dropped(rules[target], Inbound(target, p))
             /\ Dropped(rules[target], Outbound(target, p))
        /\ RulesFor(rules[target], target) = <<>>

\* every peer of the old leader has its INPUT and its OUTPUT rule installed
FullyIsolated ==
    \A p \in Range(hist.given) \ {oldLeader} :
        /\ \E i \in 1..Len(rules[oldLeader]) :
             rules[oldLeader][i] = Rule("INPUT", PrivateAddr(p))
        /\ \E i \in 1..Len(rules[oldLeader]) :
             rules[oldLeader][i] = Rule("OUTPUT", PrivateAddr(p))

\* no rule of any peer is left on the old leader
FullyHealed ==
    \A p \in Range(hist.given) \ {oldLeader} :
        RulesFor(rules[oldLeader], p) = <<>>

\* C5: every new-leader polling attempt of Failover starts in a state where
\* the isolate step has returned success and the rules of every peer are
\* installed, and every convergence polling attempt starts in a state where
\* the heal step has returned success and the rules of every peer are gone.
C5_Ordering ==
    [][/\ hist'.leaderPolls > hist.leaderPolls =>
             hist.isolate = "ok" /\ FullyIsolated
       /\ hist'.convPolls > hist.convPolls =>
             hist.heal = "ok" /\ FullyHealed]_vars

C5_Witness ==
    /\ hist.leaderPolls = 2
    /\ hist.convPolls = 2
    /\ Len(hist.given) = 3

\* C6: the new leader Failover obtains after isolating the old leader is a
\* node of the list it was given other than the old leader, whatever the
\* nodes answer.
C6_NewLeaderInMajority ==
    newLeader # Nil =>
        /\ newLeader # oldLeader
        /\ newLeader \in Range(hist.given) \ {oldLeader}

C6_Witness ==
    /\ newLeader # Nil
    /\ Len(hist.given) = 3
    /\ oldLeader = hist.given[1]
    /\ newLeader = hist.given[3]

\* C7: Failover returns success only if the heal step succeeded and, after
\* it, some convergence attempt obtained the status of both leaders, found
\* the two states equal and found that state to be "active".
C7_SuccessMeansConverged ==
    (pc = "Done" /\ err = NoErr) =>
        /\ hist.heal = "ok"
        /\ hist.convPolls >= 1
        /\ hist.converged

C7_Witness ==
    /\ pc = "Done"
    /\ err = NoErr
    /\ hist.convPolls = 2
    /\ hist.converged

\* the attempt function returns keep-waiting on its first k calls
KeepsWaiting(k) == \A i \in 1..k : script[i].kind = "continue"

\* C8: the engine never invokes the attempt function more than Attempts
\* times, and when the function returns keep-waiting exactly k times and
\* then success, k < Attempts, and the context is not cancelled, the engine
\* returns success after exactly k + 1 invocations.
C8_SuccessAfterK ==
    /\ retry.calls <= retry.attempts
    /\ \A k \in 0..(retry.attempts - 1) :
         (/\ KeepsWaiting(k) /\ script[k + 1].kind = "nil"
          /\ retry.state = "done" /\ retry.err.kind # "Cancelled") =>
             retry.err = NoErr /\ retry.calls = k + 1

C8_Witness ==
    /\ retry.attempts = 3
    /\ KeepsWaiting(2) /\ script[3].kind = "nil"
    /\ retry.state = "done" /\ retry.err = NoErr /\ retry.calls = 3

\* C9: once the attempt function has returned abort-now, on its i-th call,
\* the engine has returned the error of that outcome and the function has
\* been invoked exactly i times: once when it aborts on the first call.
C9_AbortStops ==
    \A i \in 1..retry.attempts :
        (/\ KeepsWaiting(i - 1) /\ script[i].kind = "abort"
         /\ retry.calls >= i) =>
            /\ retry.state = "done"
            /\ retry.calls = i
            /\ retry.err = script[i].err
            /\ ~ENABLED Invoke

C9_Witness ==
    /\ retry.attempts = 3
    /\ script[1].kind = "abort"
    /\ retry.state = "done" /\ retry.calls = 1
    /\ retry.err.kind = "Fatal"

\* C10: when the attempt function returns keep-waiting on every call and
\* the context is not cancelled, the engine stops after exactly Attempts
\* invocations with a retries-exhausted error that carries the reason of the
\* last keep-waiting outcome.
C10_Exhausted ==
    (/\ KeepsWaiting(retry.attempts)
     /\ retry.state = "done" /\ retry.err.kind # "Cancelled") =>
        /\ retry.calls = retry.attempts
        /\ retry.err.kind = "RetriesExhausted"
        /\ retry.err.msg = script[retry.attempts].reason
        /\ ~ENABLED Invoke

C10_Witness ==
    /\ retry.attempts = 3
    /\ KeepsWaiting(3)
    /\ script[1].reason # script[3].reason
    /\ retry.state = "done" /\ retry.calls = 3
    /\ retry.err = Err("RetriesExhausted", script[3].reason)


SaidFailed(k) == ~script[k].failed /\ TrimSpace(script[k].out) = opStatusFailed
\* a poll that returned the explicit status "completed"
SaidCompleted(k) ==
    ~script[k].failed /\ TrimSpace(script[k].out) = opStatusCompleted

\* C12: when the k-th poll is the first to say "failed" and no earlier poll
\* said "completed", runOp, once it has made that poll, has returned the
\* abort error and has made no poll after it.
C12_FailedStops ==
    \A k \in 1..runOpAttempts :
        (/\ pc = "runOp"
         /\ SaidFailed(k)
         /\ \A j \in 1..(k - 1) : ~SaidFailed(j) /\ ~SaidCompleted(j)
         /\ Len(oper.polled) >= k) =>
            /\ oper.state = "done"
            /\ Len(oper.polled) = k
            /\ err = OpFailed

C12_Witness ==
    /\ pc = "runOp" /\ runOpAttempts >= 3
    /\ script[1] = Ran(TRUE, <<>>)
    /\ script[2] = Ran(FALSE, <<"running">>)
    /\ script[3] = Ran(FALSE, <<"failed", "\n">>)
    /\ oper.state = "done" /\ Len(oper.polled) = 3 /\ err = OpFailed

\* C13: a poll that ended in a transport error never makes runOp return the
\* abort error, and runOp returns an error other than cancellation before
\* the attempt ceiling only if some poll it made said "failed".
C13_TransportKeepsWaiting ==
    (pc = "runOp" /\ oper.state = "done" /\ Len(oper.polled) > 0) =>
        /\ script[Len(oper.polled)].failed =>
              err.kind \in {"Cancelled", "RetriesExhausted"}
        /\ (/\ Len(oper.polled) < runOpAttempts
            /\ err.kind \notin {"nil", "Cancelled"}) =>
              \E k \in 1..Len(oper.polled) : SaidFailed(k)

C13_Witness ==
    /\ pc = "runOp" /\ runOpAttempts >= 3
    /\ script[1] = Ran(TRUE, <<"failed">>)
    /\ script[2] = Ran(TRUE, <<>>)
    /\ script[3] = Ran(FALSE, <<"failed">>)
    /\ oper.state = "done" /\ Len(oper.polled) = 3 /\ err = OpFailed

\* C14: after the launch printed op-123 runOp polls op-123, and after it
\* printed: launched operation "abc-def-456" for upgrade, runOp polls
\* abc-def-456.
C14_Extraction ==
    (pc = "runOp" /\ oper.state # "start" /\ ~oper.launch.failed) =>
        /\ oper.launch.out = BareId => oper.code = BareId
        /\ oper.launch.out = Extended =>
              oper.code = <<"abc", "-", "def", "-", "456">>
        /\ \A i \in 1..Len(oper.polled) : oper.polled[i].id = oper.code

C14_Witness ==
    /\ pc = "runOp"
    /\ oper.launch = Ran(FALSE, Extended)
    /\ Len(oper.polled) >= 2
    /\ oper.polled[2].id = <<"abc", "-", "def", "-", "456">>

\* the tokens between the two quotes of a string that has exactly two
QuotedToken(str) ==
    LET qs == {i \in 1..Len(str) : str[i] = Quote}
        i == CHOOSE q \in qs : \A r \in qs : q <= r
        j == CHOOSE q \in qs : \A r \in qs : q >= r
    IN  SubSeq(str, i + 1, j - 1)

\* C15: when the launch printed a sentence that holds one double-quoted
\* token, whatever the words around it, runOp polls that token.
C15_AnySentence ==
    (/\ pc = "runOp" /\ oper.state # "start" /\ ~oper.launch.failed
     /\ Cardinality({i \in 1..Len(oper.launch.out) :
                        oper.launch.out[i] = Quote}) = 2
     /\ QuotedToken(oper.launch.out) # <<>>) =>
        oper.code = QuotedToken(oper.launch.out)


\* C16: a node on which PowerOff succeeded is offline, and every command
\* attempted on an offline node returns the error that tells the node is
\* offline.
C16_OfflineFails ==
    (oper.state = "node" /\ oper.seq > 0) =>
        /\ (oper.cmd = "PowerOff" /\ err.kind = "nil") => Offline(target)
        /\ oper.wasOffline => err.kind = "AccessDenied"

\* C20: a Reboot that returns no error has dialed a new connection and this
\* connection is the node's handle; a Reboot that returns an error, from the
\* command or from the reconnect that gave up, leaves every handle as it was.
C20_Reboot ==
    [][(oper.state = "node" /\ oper'.seq # oper.seq /\ oper'.cmd = "Reboot") =>
          IF err'.kind = "nil"
          THEN /\ oper'.dials \in 1..MaxDials
               /\ oper'.dialed # NoClient
               /\ oper'.dialed # ssh[target']
               /\ ssh' = [ssh EXCEPT ![target'] = oper'.dialed]
          ELSE ssh' = ssh]_vars

C20_Witness ==
    /\ oper.state = "node" /\ oper.cmd = "Reboot" /\ oper.seq = 2
    /\ err = Wrap(Err("ConnectionProblem", ""), "SSH reconnect")
    /\ oper.dials = MaxDials
    /\ ssh[target] = 2


\* the messages Failover wraps a stage's error with
StageNames ==
    {"failed to create network partition", "new leader was not elected",
     "cluster partition is nonoperational",
     "failed to remove network partition"}

\* C17: an error Failover returns carries the message of the stage that
\* failed, whichever stage it is.
C17_StageNamed ==
    (pc = "Done" /\ err.kind # "nil") => err.msg \in StageNames


\* C18: for the list of distinct nodes Failover was given and the leader
\* found in it, getPartitions returns the leader alone as the first subset
\* and the other nodes, in the order of the list, as the second; the two
\* are disjoint and together make up the list.
C18_Partitions ==
    partitions # <<<<>>, <<>>>> =>
        /\ partitions[1] = <<oldLeader>>
        /\ partitions[2] = SelectSeq(hist.given, LAMBDA x : x # oldLeader)
        /\ Range(partitions[1]) \cap Range(partitions[2]) = {}
        /\ Range(partitions[1]) \union Range(partitions[2]) = Range(hist.given)
        /\ Len(partitions[2]) = Len(hist.given) - 1

C18_Witness ==
    /\ Len(hist.given) = 3
    /\ oldLeader = hist.given[2]
    /\ partitions = <<<<hist.given[2]>>, <<hist.given[1], hist.given[3]>>>>


\* how many times the result of a task occurs in a list of results
Count(seq, r) == Cardinality({i \in 1..Len(seq) : seq[i] = r})

\* C19: when Distribute has returned every task has finished; the errors it
\* aggregates are the non-nil results of the tasks, each as many times as
\* tasks returned it, and the error returned is nil when there is none; and
\* a task that has its result to report is never held up by a full channel.
C19_Distribute ==
    pc = "Distribute" =>
        /\ dist.state = "returned" =>
              /\ \A t \in 1..Len(nodes) : dist.task[t] = "done"
              /\ \A t \in 1..Len(nodes) :
                    Count(dist.errors, dist.res[t]) =
                        IF dist.res[t].err.kind = "nil" THEN 0
                        ELSE Cardinality({u \in 1..Len(nodes) :
                                             dist.res[u] = dist.res[t]})
              /\ \A i \in 1..Len(dist.errors) :
                    \E t \in 1..Len(nodes) : dist.res[t] = dist.errors[i]
              /\ (err.kind = "nil") <=> (dist.errors = <<>>)
        /\ \A t \in 1..Len(nodes) :
              dist.task[t] = "ran" => ENABLED TaskSend(t)

C19_Witness ==
    /\ pc = "Distribute" /\ dist.state = "returned"
    /\ Len(nodes) = 3
    /\ Len(dist.errors) = 2
    /\ err.kind = "Aggregate"
    /\ dist.res[2].err.kind = "nil"


\* the steps of Failover in the order of its text
StageOrder ==
    <<"FindLeader", "Isolate", "AwaitNewLeader", "GetNewLeader", "VerifyHealth",
      "Heal", "AwaitConvergence", "Done">>
StageRank(p) == CHOOSE i \in 1..Len(StageOrder) : StageOrder[i] = p

\* one step of Failover keeps to the order of the stages
InOrder ==
    /\ pc' # pc =>
          \/ StageRank(pc') = StageRank(pc) + 1 /\ err' = NoErr
          \/ pc' = "Done"
    /\ err'.kind # "nil" => pc' = "Done"
    /\ (pc' = "Done" /\ pc # "AwaitConvergence") => err'.kind # "nil"
    /\ rules' # rules => pc \in {"Isolate", "Heal"}
    /\ pc = "Done" => UNCHANGED pc

\* C21: Failover goes through its stages in the order Find-Leader, Isolate,
\* Await-New-Leader, Verify-Partition-Health, Heal, Await-Convergence, never
\* back to an earlier one; it enters the next stage only from a stage that
\* ended without error, a stage that fails makes Failover return its error,
\* and only the isolate and heal stages touch the firewall.
C21_StagesInOrder == [][(pc \in Range(StageOrder)) => InOrder]_vars

C21_Witness ==
    /\ pc = "Done"
    /\ err.kind = "BadParameter"
    /\ oldLeader = Nil
    /\ Len(hist.given) = 3
    /\ \A n \in Node : rules[n] = <<>>

\* C22: the node list Failover was given is the list it still holds at
\* every later step: getPartitions changes neither its nodes, nor their
\* order, nor its length.
C22_ListUnchanged ==
    pc \in Range(StageOrder) => nodes = hist.given

\* C24: the step that follows a successful Await-New-Leader loop always
\* leads to Verify-Partition-Health: no result of leader detection makes
\* Failover return there.
C24_NoReturnAfterElection ==
    [][pc = "GetNewLeader" => pc' = "VerifyHealth" /\ err' = NoErr]_vars


\* C23: an Await-New-Leader attempt returns success exactly when one node
\* of the majority subset claims leadership and it is not the old leader;
\* with no claimant, several claimants or the old leader as claimant it
\* returns keep-waiting, never abort.
C23_ElectionAttempt ==
    pc = "Elected" =>
        /\ (oper.out = Success) <=>
              \E n \in Node : Claimants = {n} /\ n # target
        /\ oper.out # Success => oper.out.kind = "continue"

C23_Witness ==
    /\ pc = "Elected"
    /\ Len(nodes) = 2
    /\ Cardinality(Claimants) = 2
    /\ oper.out.kind = "continue"

\* C27: a convergence attempt returns success exactly when both Status calls
\* answered, the two states are equal and they are "active"; in every other
\* case it returns keep-waiting, never abort; and it asks the old leader
\* only when the new leader has answered.
C27_ConvergenceAttempt ==
    pc = "Converged" =>
        /\ (oper.out = Success) <=>
              /\ script[1].ok /\ script[2].ok
              /\ script[1].state = script[2].state
              /\ script[1].state = "active"
        /\ oper.out # Success => oper.out.kind = "continue"
        /\ ~script[1].ok => oper.queried = <<"new">>

C27_Witness ==
    /\ pc = "Converged"
    /\ script[1] = [ok |-> TRUE, state |-> "active"]
    /\ script[2] = [ok |-> TRUE, state |-> "degraded"]
    /\ oper.out = Continue("cluster status is not in sync")


\* C25: the health check of the majority subset is made once: the step
\* after it is the heal step or the return of Failover, it leaves the
\* firewall alone, and when it fails Failover returns its error with no
\* heal attempted and every rule of the isolation still installed.
C25_VerifyFatal ==
    [][pc = "VerifyHealth" =>
          /\ pc' \in {"Heal", "Done"}
          /\ rules' = rules
          /\ pc' = "Heal" => err' = NoErr
          /\ pc' = "Done" =>
                /\ err'.kind # "nil"
                /\ err'.msg = "cluster partition is nonoperational"
                /\ hist'.heal = "none"
                /\ FullyIsolated']_vars

C25_Witness ==
    /\ pc = "Done"
    /\ err.msg = "cluster partition is nonoperational"
    /\ hist.heal = "none"
    /\ Len(hist.given) = 3
    /\ Len(rules[oldLeader]) = 4

\* C26: when the Await-New-Leader loop ends with an error, by cancellation
\* or by exhausting its attempts, Failover returns that error, the heal step
\* is not run and every rule the isolate step installed is still on the old
\* leader.
C26_NoCleanup ==
    (pc = "Done" /\ err.msg = "new leader was not elected") =>
        /\ err.kind \in {"Cancelled", "RetriesExhausted"}
        /\ hist.heal = "none"
        /\ FullyIsolated
        /\ Len(rules[oldLeader]) = 2 * (Len(hist.given) - 1)

C26_Witness ==
    /\ pc = "Done"
    /\ err = Wrap(Err("Cancelled", "new leader not yet elected"),
                  "new leader was not elected")
    /\ hist.leaderPolls = 1
    /\ Len(hist.given) = 3
    /\ Len(rules[oldLeader]) = 4

\* the steps Failover can still take: the stages ahead, each counted for
\* more than a whole retry loop, and the attempts left in the running loop
Variant ==
    (Len(StageOrder) - StageRank(pc)) *
        (leaderElectionRetries + activeStatusRetries + 1)
    + (IF retry.state = "running" THEN retry.attempts - retry.calls ELSE 0)

\* C28: every run of Failover ends, with success or an error: each step
\* brings it nearer to its return, a retry loop it is in is one that has
\* attempts left, so that the stage has a step to take whatever the nodes
\* answer, and its two retry loops make no more attempts than
\* leaderElectionRetries and activeStatusRetries.
C28_Terminates ==
    /\ [](pc \in Range(StageOrder) =>
            /\ hist.leaderPolls <= leaderElectionRetries
            /\ hist.convPolls <= activeStatusRetries
            /\ Variant \in Nat
            /\ pc \in {"AwaitNewLeader", "AwaitConvergence"} =>
                  retry.state = "running" /\ retry.calls < retry.attempts)
    /\ [][(pc \in Range(StageOrder)) => Variant' < Variant]_vars

C28_Witness ==
    /\ pc = "Done"
    /\ err.kind = "RetriesExhausted"
    /\ hist.leaderPolls = leaderElectionRetries
    /\ hist.convPolls = activeStatusRetries


\* the commands of a heal of the target whose rule is not on the target
MissingAt(cmds) ==
    {k \in 1..Len(cmds) :
        /\ cmds[k].op = "-D"
        /\ \A i \in 1..Len(rules[target]) : rules[target][i] # CmdRule(cmds[k])}

\* the nodes listed after the node with the address addr
PeersAfter(addr) ==
    {nodes[j] : j \in {j \in 1..Len(nodes) :
                         \E i \in 1..(j - 1) : PrivateAddr(nodes[i]) = addr}}

\* C29: UnpartitionNetwork returns an error whenever a rule it is to remove
\* is not on the target; when no connection failure came first this is the
\* error of the command that deletes the first such rule, and the rules of
\* the peers listed after that one are left as they were.
C29_HealMissingRule ==
    [][(pc = "Net" /\ calls'.ops # calls.ops /\ calls'.lastOp = "heal") =>
          LET cmds == UnpartitionCmds(target, nodes)
              miss == MissingAt(cmds)
          IN  /\ miss # {} => err'.kind \in {"ExitStatus", "Transport"}
              /\ err'.kind = "ExitStatus" =>
                    /\ miss # {}
                    /\ \E k \in miss : /\ \A l \in miss : k <= l
                                       /\ err'.cmd = cmds[k]
                    /\ \A p \in PeersAfter(err'.cmd.addr) :
                          RulesFor(rules'[target], p) = RulesFor(rules[target], p)]_vars

C29_Witness ==
    /\ pc = "Net" /\ calls.ops = 3 /\ calls.lastOp = "heal"
    /\ Len(nodes) = 3 /\ target = nodes[1]
    /\ err.kind = "ExitStatus"
    /\ err.cmd = Cmd("-D", Rule("INPUT", PrivateAddr(nodes[2])))
    /\ Len(RulesFor(rules[target], nodes[3])) = 2

RECURSIVE Installed(_, _)
\* the rules of the first k commands, the newest first
Installed(cmds, k) ==
    IF k = 0 THEN <<>> ELSE <<CmdRule(cmds[k])>> \o Installed(cmds, k - 1)

\* C30: when PartitionNetwork returns an error, the error is that of one of
\* its install commands and names it, and the target holds the rules of the
\* commands before that one on top of those it had: those of the earlier
\* peers and the inbound rule of the failing peer when the outbound one
\* failed, none of the failing command or of a later peer.
C30_PartialIsolation ==
    [][(pc = "Net" /\ calls'.ops # calls.ops /\ calls'.lastOp = "partition"
        /\ err'.kind # "nil") =>
          LET cmds == PartitionCmds(target, nodes)
          IN  \E k \in 1..Len(cmds) :
                 /\ err'.cmd = cmds[k]
                 /\ cmds[k].op = "-I"
                 /\ rules'[target] = Installed(cmds, k - 1) \o rules[target]
                 /\ \A p \in PeersAfter(cmds[k].addr) :
                       RulesFor(rules'[target], p) = RulesFor(rules[target], p)]_vars

C30_Witness ==
    /\ pc = "Net" /\ calls.ops = 1 /\ calls.lastOp = "partition"
    /\ Len(nodes) = 3 /\ target = nodes[1]
    /\ err.kind = "Transport"
    /\ err.cmd = Cmd("-I", Rule("OUTPUT", PrivateAddr(nodes[2])))
    /\ rules[target] = <<Rule("INPUT", PrivateAddr(nodes[2]))>>


\* C31: when Distribute has returned, every node of the list was the node
\* of exactly one task's Run: none was skipped, none was run twice.
C31_EachNodeOnce ==
    (pc = "Distribute" /\ dist.state = "returned") =>
        \A i \in 1..Len(nodes) :
            Cardinality({t \in 1..Len(nodes) : dist.ran[t] = nodes[i]}) = 1



\* the nodes of the list whose status query succeeds and whose leader key
\* holds their own private address
OwnAddress == {n \in Range(nodes) : env[n].statusOk /\ env[n].leaderIP = PrivateAddr(n)}

\* C32: a node counts as leader exactly when its status query succeeded and
\* the leader key it read holds its own private address: the detection
\* returns a node only if it is such a node, reports not-found exactly when
\* the list has none, and a node whose status query or key lookup failed is
\* never returned.
C32_IsLeader ==
    pc = "Detected" =>
        /\ last.err = NoErr => last.leader \in OwnAddress
        /\ last.err.kind = "NotFound" <=> OwnAddress = {}
        /\ \A n \in Range(nodes) :
               (~env[n].statusOk \/ env[n].leaderIP = NoAddr) => last.leader # n

C32_Witness ==
    /\ pc = "Detected"
    /\ Len(nodes) = 3
    /\ ~env[nodes[1]].statusOk
    /\ env[nodes[2]].statusOk /\ env[nodes[2]].leaderIP = NoAddr
    /\ last.leader = nodes[3]
    /\ last.err = NoErr

\* C33: getLeaderNode asks the nodes one after the other in list order, each
\* at most once; when it returns a leader or not-found it has asked every
\* node of the list; when a second claimant answers it stops there, the
\* nodes after it are not asked.
C33_QueryOrder ==
    pc = "Detected" =>
        /\ Len(last.queried) <= Len(nodes)
        /\ \A i \in 1..Len(last.queried) : last.queried[i] = nodes[i]
        /\ last.err.kind \in {"nil", "NotFound"} => last.queried = nodes
        /\ last.err.kind = "BadParameter" =>
               /\ last.queried[Len(last.queried)] \in OwnAddress
               /\ Cardinality({i \in 1..Len(last.queried) :
                                  last.queried[i] \in OwnAddress}) = 2

C33_Witness ==
    /\ pc = "Detected"
    /\ Len(nodes) = 3
    /\ last.err.kind = "BadParameter"
    /\ last.queried = <<nodes[1], nodes[2]>>
    /\ nodes[3] \in OwnAddress

\* a poll whose response is neither of the two final states
NonTerminal(k) == ~SaidCompleted(k) /\ ~SaidFailed(k)

\* C34: every poll of runOp is made on the node that launched the operation
\* and names the identifier taken from the launch output; a poll that says
\* "completed", whatever whitespace surrounds it, ends runOp with success,
\* one that says "failed" ends it with the abort error, and after any other
\* response runOp polls again unless its context is done or the attempts are
\* used up.
C34_PollMapping ==
    (pc = "runOp" /\ Len(oper.polled) > 0) =>
        LET k == Len(oper.polled)
        IN  /\ \A i \in 1..k :
                   oper.polled[i] = [node |-> target, id |-> oper.code]
            /\ \A j \in 1..(k - 1) : NonTerminal(j)
            /\ SaidCompleted(k) => oper.state = "done" /\ err = NoErr
            /\ SaidFailed(k) => oper.state = "done" /\ err = OpFailed
            /\ (NonTerminal(k) /\ oper.state = "done") =>
                   err.kind \in {"Cancelled", "RetriesExhausted"}
            /\ (oper.state = "done" /\ err.kind = "RetriesExhausted") =>
                   k = runOpAttempts

C34_Witness ==
    /\ pc = "runOp" /\ runOpAttempts >= 3
    /\ oper.launch = Ran(FALSE, Extended)
    /\ script[1] = Ran(FALSE, <<"running">>)
    /\ script[2] = Ran(FALSE, <<>>)
    /\ script[3] = Ran(FALSE, <<" ", "completed", "\n">>)
    /\ oper.state = "done" /\ Len(oper.polled) = 3 /\ err = NoErr
    /\ oper.polled[3] = [node |-> target, id |-> <<"abc", "-", "def", "-", "456">>]

\* C35: when the launch command fails, runOp returns its error without
\* having polled; a poll is made only after a launch that succeeded.
C35_NoPollAfterFailedLaunch ==
    pc = "runOp" =>
        /\ (oper.launch.failed /\ oper.state # "start") =>
               /\ oper.state = "done"
               /\ oper.polled = <<>>
               /\ err.kind = "Transport"
        /\ Len(oper.polled) > 0 => ~oper.launch.failed
        /\ oper.state = "start" => oper.polled = <<>>

C35_Witness ==
    /\ pc = "runOp"
    /\ oper.launch.failed
    /\ oper.state = "done"
    /\ oper.polled = <<>>
    /\ err.kind = "Transport"

\* the handle of node n is another after the step than before it
HandleChanged(n) == ssh'[n] # ssh[n]

\* C36: a step changes the connection handle of a node only if it is a
\* PowerOff of that node that succeeded, which leaves no handle, or a Reboot
\* of that node that succeeded, which leaves the connection it dialled;
\* Status, IsLeader, PartitionNetwork, UnpartitionNetwork and runOp, of
\* which Failover is made, change no handle, and a PowerOff that failed
\* leaves every handle as it was.
C36_HandleFrame ==
    [][/\ \A n \in Node :
            HandleChanged(n) =>
                /\ target' = n
                /\ err'.kind = "nil"
                /\ \/ oper'.cmd = "PowerOff" /\ ssh'[n] = NoClient
                   \/ /\ oper'.cmd = "Reboot"
                      /\ ssh'[n] # NoClient
                      /\ ssh'[n] = oper'.dialed
       /\ (oper'.seq > oper.seq /\ oper'.cmd \in PlainCommands) => ssh' = ssh
       /\ (oper'.seq > oper.seq /\ oper'.cmd = "PowerOff" /\ err'.kind # "nil") =>
              ssh' = ssh]_vars

C36_Witness ==
    /\ pc = "node"
    /\ oper.cmd = "PowerOff"
    /\ err.kind = "Transport"
    /\ ~oper.wasOffline
    /\ ~Offline(target)
    /\ \E m \in Node : Offline(m)
    /\ \E m \in Node : ~Offline(m) /\ ssh[m] # Connected[m]

\* C37: when every call made on the target succeeded, k of them
\* PartitionNetwork and j of them UnpartitionNetwork, with the same list of
\* n distinct nodes that holds the target, and j <= k, the target holds
\* 2*(n-1)*(k-j) rules, k-j INPUT rules and k-j OUTPUT rules for every peer;
\* as long as k > j the packets of every peer are still dropped, so two
\* isolations and one heal leave the target cut off.
C37_RulesAccumulate ==
    (/\ pc = "Net" /\ calls.bad = 0 /\ target \in Range(nodes)
     /\ calls.heal <= calls.part) =>
        LET n == Len(nodes)
            k == calls.part
            j == calls.heal
        IN  /\ Len(rules[target]) = 2 * (n - 1) * (k - j)
            /\ \A p \in Range(nodes) \ {target} :
                   /\ Count(rules[target], Rule("INPUT", PrivateAddr(p))) = k - j
                   /\ Count(rules[target], Rule("OUTPUT", PrivateAddr(p))) = k - j
                   /\ k > j => Dropped(rules[target], Inbound(target, p))

C37_Witness ==
    /\ pc = "Net"
    /\ calls.bad = 0 /\ calls.part = 2 /\ calls.heal = 1
    /\ calls.lastOp = "heal"
    /\ Len(nodes) = 3 /\ target = nodes[2]
    /\ Len(rules[target]) = 4
    /\ Dropped(rules[target], Inbound(target, nodes[1]))

\* C38: Failover has one deadline, which stays passed once it has passed,
\* and the steps it makes with its ctx are under it.  A convergence attempt
\* at which the deadline is found passed is the last: Failover returns the
\* cancellation error, whatever attempts are left, unless that attempt itself
\* succeeded; it returns the error of used-up attempts only when the
\* deadline has not passed.  The same holds of the election loop.  With the
\* deadline passed the isolate step, the heal step and the detection of the
\* new leader fail.  The attempts do not run under that deadline: an
\* election attempt made after it can still find the new leader.
C38_ScenarioDeadline ==
    [][/\ hist.expired => hist'.expired
       /\ (hist'.convPolls > hist.convPolls /\ hist'.expired) =>
              /\ pc' = "Done"
              /\ IF hist'.converged THEN err' = NoErr
                 ELSE err'.kind = "Cancelled"
       /\ (hist'.convPolls > hist.convPolls /\ err'.kind = "RetriesExhausted") =>
              ~hist'.expired /\ hist'.convPolls = activeStatusRetries
       /\ (hist'.leaderPolls > hist.leaderPolls /\ hist'.expired) =>
              \/ pc' = "GetNewLeader"
              \/ pc' = "Done" /\ err'.kind = "Cancelled"
       /\ (pc = "Isolate" /\ hist.expired /\ Len(nodes) > 1 /\ pc' # pc) =>
              pc' = "Done" /\ err'.msg = "failed to create network partition"
       /\ (pc = "GetNewLeader" /\ hist.expired /\ pc' # pc) =>
              pc' = "Done" /\ err'.kind = "NotFound"
       /\ (pc = "Heal" /\ hist.expired /\ pc' # pc) =>
              pc' = "Done" /\ err'.msg = "failed to remove network partition"]_vars

C38_Witness ==
    /\ pc = "Done"
    /\ hist.heal = "ok"
    /\ hist.expired
    /\ hist.convPolls = 1 /\ hist.convPolls < activeStatusRetries
    /\ ~hist.converged
    /\ err.kind = "Cancelled"
    /\ Len(hist.given) = 3

\* C39: a SetInstaller call leaves the sub-directory of the home it was given
\* as the install directory, and returns no error, when the transfer and
\* the unpacking both succeeded; when either failed it returns an error and
\* the install directory is what it was before the call.  A TransferFile
\* call does the same with the transfer alone.
C39_InstallDir ==
    (pc = "install" /\ oper.seq > 0) =>
        LET done == IF oper.cmd = "SetInstaller"
                    THEN oper.transfer = NoErr /\ oper.unpack = NoErr
                    ELSE oper.transfer = NoErr
        IN  /\ done => /\ err = NoErr
                       /\ oper.installDir =
                              IF oper.sub = "" THEN <<"home">>
                              ELSE <<"home", oper.sub>>
            /\ ~done => err.kind # "nil" /\ oper.installDir = oper.prev

C39_Witness ==
    /\ pc = "install"
    /\ oper.cmd = "SetInstaller"
    /\ oper.sub = "upload"
    /\ oper.transfer = NoErr
    /\ oper.unpack.kind = "ExitStatus"
    /\ err.kind = "ExitStatus"
    /\ oper.prev = <<"home", "installer">>
    /\ oper.installDir = <<"home", "installer">>
=============================================================================
